---- MODULE Spec2Model ----
(***************************************************************************)
(* Model of credit_history_processor.py: the field normaliser              *)
(* (CreditHistoryProcessor.extract_loan_parameters with the pydantic Loan  *)
(* model), the ingestion coordinator (process_paragraphs, _store_loan,     *)
(* _mark_paragraph_error, get_unprocessed_paragraphs) over the two SQLite  *)
(* tables paragraphs and loans, the segmenter                              *)
(* (extract_paragraphs_from_pdf) and main.                                 *)
(*                                                                         *)
(* Text is a sequence of one-character strings.  The two Cyrillic letters  *)
(* of the "not applicable" marker are written "EN"/"DE" (capital) and      *)
(* "en"/"de" (small).  The alphabets used below contain none of the        *)
(* characters "e", "E", "_", "+", "n", "i", "f", so the exponent,          *)
(* underscore, sign-plus, "inf" and "nan" forms of Python's float() do not *)
(* occur in the inputs.                                                    *)
(***************************************************************************)
EXTENDS Integers, Sequences, FiniteSets, TLC

(***************************************************************************)
(* Bounds of the model.                                                    *)
(***************************************************************************)
MaxAmountLen == 4
MaxParagraphs == 2
MaxBatch == 2
MaxRuns == 2
MaxFaults == 1
MaxChunks == 2
MaxPages == 2
MaxExtractions == 2
MaxReplyLen == 3

(***************************************************************************)
(* JSON / Python values.  Every value is a record of one shape:            *)
(*   t : the type tag, s : text, n : integer payload, e : decimal scale.   *)
(* A float is n * 10^(-e), a date is n = year*10000 + month*100 + day.     *)
(* "absent" is a key that is not in the dict.                              *)
(***************************************************************************)
Absent == [t |-> "absent", s |-> <<>>, n |-> 0, e |-> 0]
None == [t |-> "null", s |-> <<>>, n |-> 0, e |-> 0]
Str(s) == [t |-> "str", s |-> s, n |-> 0, e |-> 0]
Num(n) == [t |-> "num", s |-> <<>>, n |-> n, e |-> 0]
Bool(b) == [t |-> "bool", s |-> <<>>, n |-> IF b THEN 1 ELSE 0, e |-> 0]
Float(m, e) == [t |-> "float", s |-> <<>>, n |-> m, e |-> e]
Date(y, m, d) == [t |-> "date", s |-> <<>>, n |-> y * 10000 + m * 100 + d, e |-> 0]

\* Python truthiness: bool(v)
Truthy(v) ==
    CASE v.t = "str" -> Len(v.s) > 0
      [] v.t = "num" -> v.n # 0
      [] v.t = "bool" -> v.n # 0
      [] v.t = "float" -> v.n # 0
      [] v.t = "date" -> TRUE
      [] OTHER -> FALSE

\* `key in loan_data`
HasKey(d, k) == d[k].t # "absent"

(***************************************************************************)
(* str methods                                                             *)
(***************************************************************************)
Digits == {"0", "1", "2", "3", "4", "5", "6", "7", "8", "9"}
Whitespace == {" ", "\n", "\t"}

DigitVal(c) ==
    CASE c = "0" -> 0 [] c = "1" -> 1 [] c = "2" -> 2 [] c = "3" -> 3
      [] c = "4" -> 4 [] c = "5" -> 5 [] c = "6" -> 6 [] c = "7" -> 7
      [] c = "8" -> 8 [] c = "9" -> 9

RECURSIVE LStrip(_)
LStrip(s) ==
    IF s # <<>> /\ Head(s) \in Whitespace THEN LStrip(Tail(s)) ELSE s

RECURSIVE RStrip(_)
RStrip(s) ==
    IF s # <<>> /\ s[Len(s)] \in Whitespace
    THEN RStrip(SubSeq(s, 1, Len(s) - 1))
    ELSE s

\* str.strip()
Strip(s) == RStrip(LStrip(s))

\* s[-3:]
Last3(s) == IF Len(s) <= 3 THEN s ELSE SubSeq(s, Len(s) - 2, Len(s))

\* s[:-3]
DropLast3(s) == IF Len(s) <= 3 THEN <<>> ELSE SubSeq(s, 1, Len(s) - 3)

\* the comma is left in place
ReplaceCommaKeepsComma(s) == s

\* s.replace(',', '.')
ReplaceComma(s) == [k \in 1..Len(s) |-> IF s[k] = "," THEN "." ELSE s[k]]

UpperChar(c) ==
    CASE c = "en" -> "EN" [] c = "de" -> "DE" [] c = "a" -> "A"
      [] c = "b" -> "B" [] c = "c" -> "C" [] OTHER -> c

\* s.upper()
Upper(s) == [k \in 1..Len(s) |-> UpperChar(s[k])]

RECURSIVE DigitsValue(_)
DigitsValue(s) ==
    IF s = <<>> THEN 0
    ELSE DigitsValue(SubSeq(s, 1, Len(s) - 1)) * 10 + DigitVal(s[Len(s)])

AllDigits(s) == \A k \in 1..Len(s) : s[k] \in Digits

Count(s, c) == Cardinality({k \in 1..Len(s) : s[k] = c})

\* s.find(c) + 1
IndexOf(s, c) ==
    IF Count(s, c) = 0 THEN 0
    ELSE CHOOSE k \in 1..Len(s) : s[k] = c /\ \A j \in 1..(k - 1) : s[j] # c

RECURSIVE DropTrailingZeros(_)
DropTrailingZeros(s) ==
    IF s # <<>> /\ s[Len(s)] = "0"
    THEN DropTrailingZeros(SubSeq(s, 1, Len(s) - 1))
    ELSE s

(***************************************************************************)
(* float(text): optional sign, digits with at most one ".", at least one   *)
(* digit; surrounding whitespace is ignored.  The value is kept exactly,   *)
(* as mantissa and decimal scale with trailing zeros of the fraction       *)
(* dropped.  [ok |-> FALSE] is ValueError.                                 *)
(***************************************************************************)
PyFloat(text) ==
    LET t == Strip(text)
        signed == t # <<>> /\ t[1] \in {"-", "+"}
        body == IF signed THEN Tail(t) ELSE t
        dot == IndexOf(body, ".")
        ip == IF dot = 0 THEN body ELSE SubSeq(body, 1, dot - 1)
        fp == IF dot = 0 THEN <<>> ELSE DropTrailingZeros(SubSeq(body, dot + 1, Len(body)))
        wellformed == /\ \A k \in 1..Len(body) : body[k] \in Digits \cup {"."}
                      /\ Count(body, ".") <= 1
                      /\ Len(body) - Count(body, ".") >= 1
        mag == DigitsValue(ip \o fp)
    IN  IF wellformed
        THEN [ok |-> TRUE, v |-> Float(IF signed /\ t[1] = "-" THEN 0 - mag ELSE mag, Len(fp))]
        ELSE [ok |-> FALSE, v |-> None]

(***************************************************************************)
(* datetime.strptime(text, "%d-%m-%Y").date()                              *)
(*   %d : 3[0-1] | [1-2]\d | 0[1-9] | [1-9] | " "[1-9]                     *)
(*   %m : 1[0-2] | 0[1-9] | [1-9]        %Y : \d\d\d\d                     *)
(* followed by the calendar check of datetime.  [ok |-> FALSE] is          *)
(* ValueError.                                                             *)
(***************************************************************************)
IsLeap(y) == (y % 4 = 0 /\ y % 100 # 0) \/ y % 400 = 0

DaysInMonth(y, m) ==
    IF m = 2 THEN (IF IsLeap(y) THEN 29 ELSE 28)
    ELSE IF m \in {4, 6, 9, 11} THEN 30 ELSE 31

DayDirective(s) ==
    \/ Len(s) = 1 /\ s[1] \in Digits \ {"0"}
    \/ Len(s) = 2 /\ s[1] = "3" /\ s[2] \in {"0", "1"}
    \/ Len(s) = 2 /\ s[1] \in {"1", "2"} /\ s[2] \in Digits
    \/ Len(s) = 2 /\ s[1] \in {"0", " "} /\ s[2] \in Digits \ {"0"}

MonthDirective(s) ==
    \/ Len(s) = 1 /\ s[1] \in Digits \ {"0"}
    \/ Len(s) = 2 /\ s[1] = "1" /\ s[2] \in {"0", "1", "2"}
    \/ Len(s) = 2 /\ s[1] = "0" /\ s[2] \in Digits \ {"0"}

Strptime(text) ==
    LET n == Len(text)
        shape == n >= 8 /\ n <= 10 /\ text[n - 4] = "-"
        ys == IF shape THEN SubSeq(text, n - 3, n) ELSE <<>>
        head == IF shape THEN SubSeq(text, 1, n - 5) ELSE <<>>
        dash == IndexOf(head, "-")
        ds == IF dash = 0 THEN <<>> ELSE SubSeq(head, 1, dash - 1)
        ms == IF dash = 0 THEN <<>> ELSE SubSeq(head, dash + 1, Len(head))
        matched == shape /\ AllDigits(ys) /\ dash # 0 /\ DayDirective(ds) /\ MonthDirective(ms)
        y == DigitsValue(ys)
        m == DigitsValue(ms)
        d == DigitsValue(IF ds # <<>> /\ ds[1] = " " THEN Tail(ds) ELSE ds)
    IN  IF matched /\ y >= 1 /\ d <= DaysInMonth(y, m)
        THEN [ok |-> TRUE, v |-> Date(y, m, d)]
        ELSE [ok |-> FALSE, v |-> None]

(***************************************************************************)
(* The pydantic model Loan (lax mode, extra keys ignored).                 *)
(* Each field validator gives [ok, v]; ok = FALSE is a ValidationError.    *)
(***************************************************************************)
LoanFields ==
    {"paragraph_id", "bank_name", "deal_date", "deal_type", "loan_type",
     "card_usage", "loan_amount", "loan_currency", "termination_date",
     "actual_termination_date", "loan_status"}

Valid(v) == [ok |-> TRUE, v |-> v]
Invalid == [ok |-> FALSE, v |-> None]

\* bank_name: str = Field(...)
RequiredStr(v) == IF v.t = "str" THEN Valid(v) ELSE Invalid

\* Optional[str] = Field(None)
OptionalStr(v) ==
    IF v.t = "str" THEN Valid(v)
    ELSE IF v.t \in {"null", "absent"} THEN Valid(None)
    ELSE Invalid

\* Optional[bool] = Field(None)
OptionalBool(v) ==
    IF v.t = "bool" THEN Valid(v)
    ELSE IF v.t \in {"num", "float"} /\ v.e = 0 /\ v.n \in {0, 1} THEN Valid(Bool(v.n = 1))
    ELSE IF v.t \in {"null", "absent"} THEN Valid(None)
    ELSE Invalid

\* Optional[float] = Field(None)
OptionalFloat(v) ==
    IF v.t = "float" THEN Valid(v)
    ELSE IF v.t \in {"num", "bool"} THEN Valid(Float(v.n, 0))
    ELSE IF v.t = "str" THEN PyFloat(v.s)
    ELSE IF v.t \in {"null", "absent"} THEN Valid(None)
    ELSE Invalid

\* Loan.parse_date, the mode='before' validator of deal_date and termination_date
parse_date(v) ==
    IF v.t = "null" THEN None
    ELSE IF v.t = "date" THEN v
    ELSE IF v.t = "str" THEN Strptime(v.s).v
    ELSE None

\* Optional[date] = Field(None) behind parse_date; a default is not validated
ParsedDate(v) == IF v.t = "absent" THEN Valid(None) ELSE Valid(parse_date(v))

\* Optional[date] = Field(None) with no validator of its own: a date, None,
\* an ISO "YYYY-MM-DD" text or a Unix timestamp that is an exact day
OptionalDate(v) ==
    IF v.t = "date" THEN Valid(v)
    ELSE IF v.t \in {"null", "absent"} THEN Valid(None)
    ELSE IF v.t \in {"num", "float"} /\ v.n = 0 THEN Valid(Date(1970, 1, 1))
    ELSE Invalid

\* Loan(**loan_data)
Loan(loan_data) ==
    LET f == [paragraph_id |-> Valid(loan_data.paragraph_id),
              bank_name |-> RequiredStr(loan_data.bank_name),
              deal_date |-> ParsedDate(loan_data.deal_date),
              deal_type |-> OptionalStr(loan_data.deal_type),
              loan_type |-> OptionalStr(loan_data.loan_type),
              card_usage |-> OptionalBool(loan_data.card_usage),
              loan_amount |-> OptionalFloat(loan_data.loan_amount),
              loan_currency |-> OptionalStr(loan_data.loan_currency),
              termination_date |-> ParsedDate(loan_data.termination_date),
              actual_termination_date |-> OptionalDate(loan_data.actual_termination_date),
              loan_status |-> OptionalStr(loan_data.loan_status)]
    IN  [ok |-> \A k \in LoanFields : f[k].ok,
         loan |-> [k \in LoanFields |-> f[k].v]]

\* hasattr(loan, name)
HasAttr(loan, name) == name \in DOMAIN loan

(***************************************************************************)
(* The reply of the chat completion.  raises: the call threw (network,     *)
(* timeout).  Otherwise toks is the text of message.content as JSON        *)
(* tokens: "[", "]", ",", "{}" (one JSON object, whose members are fm),    *)
(* "scalar" (a JSON string, number, true, false or null), "ws"             *)
(* (whitespace) and "junk" (anything that is not JSON).                    *)
(***************************************************************************)
JsonTokens == {"[", "]", ",", "{}", "scalar", "ws", "junk"}

\* the text is parsed as it came
StripBracketsNever(toks) == toks

\* the 'Clean the response' step: json_str[1:-1] when wrapped in [ ]
StripBrackets(toks) ==
    IF toks # <<>> /\ toks[1] = "[" /\ toks[Len(toks)] = "]"
    THEN SubSeq(toks, 2, Len(toks) - 1)
    ELSE toks

RECURSIVE JsonValueEnd(_, _)
RECURSIVE JsonItemsEnd(_, _)
\* index after the JSON value that starts at i, 0 when there is none
JsonValueEnd(toks, i) ==
    IF i > Len(toks) THEN 0
    ELSE IF toks[i] \in {"{}", "scalar"} THEN i + 1
    ELSE IF toks[i] = "["
         THEN IF i + 1 <= Len(toks) /\ toks[i + 1] = "]" THEN i + 2
              ELSE JsonItemsEnd(toks, i + 1)
    ELSE 0

JsonItemsEnd(toks, i) ==
    LET j == JsonValueEnd(toks, i)
    IN  IF j = 0 \/ j > Len(toks) THEN 0
        ELSE IF toks[j] = "]" THEN j + 1
        ELSE IF toks[j] = "," THEN JsonItemsEnd(toks, j + 1)
        ELSE 0

\* json.loads: "dict", "list", "scalar", or "error" (JSONDecodeError)
json_loads(toks) ==
    LET t == SelectSeq(toks, LAMBDA c : c # "ws")
    IN  IF t # <<>> /\ JsonValueEnd(t, 1) = Len(t) + 1
        THEN (IF t[1] = "{}" THEN "dict" ELSE IF t[1] = "[" THEN "list" ELSE "scalar")
        ELSE "error"

(***************************************************************************)
(* extract_loan_parameters, step by step.  A step gives [exc, d]:          *)
(* exc = TRUE is an exception that reaches the outer `except Exception`.   *)
(***************************************************************************)
SentinelDate == <<"3", "1", "-", "1", "2", "-", "9", "9", "9", "9">>
NotApplicable == <<"EN", "/", "DE">>
CurrencyLen == 3

\* lines 324-342: 'Process amount/currency if present'
SplitAmount(loan_data) ==
    IF HasKey(loan_data, "loan_amount") /\ Truthy(loan_data.loan_amount)
    THEN LET amount_str == loan_data.loan_amount
         IN  IF amount_str.t # "str"
             THEN [exc |-> TRUE, d |-> loan_data]     \* len() of a number: TypeError
             ELSE IF Len(amount_str.s) >= CurrencyLen
             THEN LET currency == Strip(Last3(amount_str.s))
                      amount_part == ReplaceComma(Strip(DropLast3(amount_str.s)))
                      parsed == PyFloat(amount_part)
                  IN  IF parsed.ok
                      THEN [exc |-> FALSE,
                            d |-> [loan_data EXCEPT !.loan_currency = Str(currency),
                                                    !.loan_amount = parsed.v]]
                      ELSE [exc |-> FALSE,
                            d |-> [loan_data EXCEPT !.loan_currency = None,
                                                    !.loan_amount = None]]
             ELSE [exc |-> FALSE,
                   d |-> [loan_data EXCEPT !.loan_amount = None, !.loan_currency = None]]
    ELSE [exc |-> FALSE, d |-> loan_data]

\* lines 353-363: the body of the loop over date_fields, for one field
ConvertDate(loan_data, field) ==
    IF HasKey(loan_data, field) /\ Truthy(loan_data[field])
    THEN LET v == loan_data[field]
         IN  IF v.t = "str" /\ Upper(v.s) = NotApplicable
             THEN [loan_data EXCEPT ![field] = None]
             ELSE IF v.t = "str" /\ v.s = SentinelDate
             THEN [loan_data EXCEPT ![field] = None,
                                    !.original_termination = Str(SentinelDate)]
             ELSE IF v.t = "str" /\ Strptime(v.s).ok
             THEN [loan_data EXCEPT ![field] = Strptime(v.s).v]
             ELSE [loan_data EXCEPT ![field] = None]   \* ValueError, TypeError
    ELSE loan_data

\* lines 345-363: date_fields in dict order
ConvertDates(loan_data) ==
    ConvertDate(ConvertDate(ConvertDate(loan_data, "deal_date"),
                            "termination_date"),
                "actual_termination_date")

Active == Str(<<"A", "c", "t", "i", "v", "e">>)
Closed == Str(<<"C", "l", "o", "s", "e", "d">>)

\* Closed as soon as an actual termination date is known
DetermineStatusByActualDate(loan) ==
    IF ~Truthy(loan.loan_status)
    THEN IF Truthy(loan.actual_termination_date)
         THEN [loan EXCEPT !.loan_status = Closed]
         ELSE [loan EXCEPT !.loan_status = Active]
    ELSE loan

\* lines 371-380: 'Determine status according to business rules'
DetermineStatus(loan) ==
    IF ~Truthy(loan.loan_status)
    THEN IF HasAttr(loan, "original_termination") /\ loan["original_termination"] = Str(SentinelDate)
         THEN [loan EXCEPT !.loan_status = Active]
         ELSE IF Truthy(loan.termination_date) /\ ~Truthy(loan.actual_termination_date)
         THEN [loan EXCEPT !.loan_status = Active]
         ELSE IF Truthy(loan.termination_date) /\ Truthy(loan.actual_termination_date)
         THEN [loan EXCEPT !.loan_status = Closed]
         ELSE [loan EXCEPT !.loan_status = Active]
    ELSE loan

NoLoan == [k \in LoanFields |-> None]
ReturnNone == [is_none |-> TRUE, loan |-> NoLoan]
ReturnLoan(loan) == [is_none |-> FALSE, loan |-> loan]

\* lines 321-383 once json.loads gave a dict with members fm
Normalize(fm, paragraph_id) ==
    LET loan_data == [fm EXCEPT !.paragraph_id = Num(paragraph_id)]
        split == SplitAmount(loan_data)
        built == Loan(ConvertDates(split.d))
    IN  IF split.exc THEN ReturnNone
        ELSE IF ~built.ok THEN ReturnNone
        ELSE ReturnLoan(DetermineStatus(built.loan))

\* extract_loan_parameters(paragraph), given what the chat completion did
extract_loan_parameters(response, paragraph_id) ==
    IF response.raises THEN ReturnNone
    ELSE IF json_loads(StripBrackets(response.toks)) # "dict" THEN ReturnNone
    ELSE Normalize(response.fm, paragraph_id)

(***************************************************************************)
(* The SQLite store.  paragraphs and loans are the committed tables, in    *)
(* id order (AUTOINCREMENT: the row at position k has id k).  tx is the    *)
(* working copy of the connection that has an open transaction.            *)
(***************************************************************************)
NULL == "NULL"
FailedToExtract == "Failed to extract loan parameters"
StorageError == "sqlite3.OperationalError"

LoanColumns == LoanFields \ {"actual_termination_date"}

DigitChar(n) ==
    CASE n = 0 -> "0" [] n = 1 -> "1" [] n = 2 -> "2" [] n = 3 -> "3"
      [] n = 4 -> "4" [] n = 5 -> "5" [] n = 6 -> "6" [] n = 7 -> "7"
      [] n = 8 -> "8" [] n = 9 -> "9"

\* date.isoformat(): "YYYY-MM-DD"
isoformat(v) ==
    LET y == v.n \div 10000
        m == (v.n \div 100) % 100
        d == v.n % 100
    IN  Str(<<DigitChar(y \div 1000), DigitChar((y \div 100) % 10),
              DigitChar((y \div 10) % 10), DigitChar(y % 10), "-",
              DigitChar(m \div 10), DigitChar(m % 10), "-",
              DigitChar(d \div 10), DigitChar(d % 10)>>)

\* the parameter tuple of the INSERT in _store_loan
LoanRow(loan) ==
    [k \in LoanColumns |->
        IF k \in {"deal_date", "termination_date"}
        THEN (IF Truthy(loan[k]) THEN isoformat(loan[k]) ELSE None)
        ELSE loan[k]]

\* _store_paragraph: INSERT INTO paragraphs (content, page_number)
NewParagraph(id) == [id |-> id, processed |-> FALSE, processing_error |-> NULL]

\* UPDATE paragraphs SET processed = TRUE WHERE id = ?
SetProcessed(ps, id) ==
    [k \in 1..Len(ps) |-> IF ps[k].id = id THEN [ps[k] EXCEPT !.processed = TRUE] ELSE ps[k]]

\* the error text is written, the processed flag is not
_mark_paragraph_error_only(ps, id, error_message) ==
    [k \in 1..Len(ps) |->
        IF ps[k].id = id THEN [ps[k] EXCEPT !.processing_error = error_message] ELSE ps[k]]

\* the UPDATE has no WHERE clause
_mark_paragraph_error_all(ps, id, error_message) ==
    [k \in 1..Len(ps) |-> [ps[k] EXCEPT !.processed = TRUE, !.processing_error = error_message]]

\* _mark_paragraph_error: UPDATE paragraphs SET processed = TRUE, processing_error = ?
\* WHERE id = ?, committed at once
_mark_paragraph_error(ps, id, error_message) ==
    [k \in 1..Len(ps) |->
        IF ps[k].id = id
        THEN [ps[k] EXCEPT !.processed = TRUE, !.processing_error = error_message]
        ELSE ps[k]]

\* the INSERT is committed on its own (autocommit)
InsertLoanAutocommit(db, loan) ==
    [db |-> [db EXCEPT !.loans = Append(db.loans, LoanRow(loan))],
     tx |-> [db EXCEPT !.loans = Append(db.loans, LoanRow(loan))]]

\* _store_loan, first statement: the INSERT opens a transaction, so that the
\* new row is in the working copy only
InsertLoan(db, loan) ==
    [db |-> db, tx |-> [db EXCEPT !.loans = Append(db.loans, LoanRow(loan))]]

\* _store_loan without its second statement
UpdateNothing(work, paragraph_id) == work

\* _store_loan, second statement, in the same transaction
UpdateProcessed(work, paragraph_id) ==
    [work EXCEPT !.paragraphs = SetProcessed(work.paragraphs, paragraph_id)]

\* the WHERE clause is missing
get_all_paragraphs(ps) == [k \in 1..Len(ps) |-> ps[k].id]

\* get_unprocessed_paragraphs: SELECT * FROM paragraphs WHERE processed = FALSE
\* ORDER BY id, as the list of ids
get_unprocessed_paragraphs(ps) ==
    LET rows == SelectSeq(ps, LAMBDA r : ~r.processed)
    IN  [k \in 1..Len(rows) |-> rows[k].id]

\* paragraphs[i:i + batch_size + 1]
BatchOneLonger(list, i, size) ==
    SubSeq(list, i + 1, IF i + size + 1 < Len(list) THEN i + size + 1 ELSE Len(list))

\* paragraphs[i:i + batch_size]
Batch(list, i, size) ==
    SubSeq(list, i + 1, IF i + size < Len(list) THEN i + size ELSE Len(list))

(***************************************************************************)
(* Inputs: the field maps and replies the extractor may give.              *)
(***************************************************************************)
FieldKeys == LoanFields \cup {"original_termination"}

EmptyMap == [k \in FieldKeys |-> Absent]

BankX == Str(<<"B", "a", "n", "k", " ", "X">>)
RUB == Str(<<"R", "U", "B">>)
Amount50000RUB == Str(<<"5", "0", "0", "0", "0", ",", "0", "0", " ", "R", "U", "B">>)
AmountRU == Str(<<"R", "U">>)
AmountAbcRUB == Str(<<"a", "b", "c", " ", "R", "U", "B">>)
Date18052024 == Str(<<"1", "8", "-", "0", "5", "-", "2", "0", "2", "4">>)
Date15012025 == Str(<<"1", "5", "-", "0", "1", "-", "2", "0", "2", "5">>)
Date1520 == Str(<<"1", "-", "5", "-", "2", "0", "2", "0">>)
Date31022024 == Str(<<"3", "1", "-", "0", "2", "-", "2", "0", "2", "4">>)
DateIso == Str(<<"2", "0", "2", "4", "-", "0", "5", "-", "1", "8">>)
Paid == Str(<<"P", "a", "i", "d">>)
Amount0RUB == Str(<<"0", " ", "R", "U", "B">>)
AmountMinus5RUB == Str(<<"-", "5", " ", "R", "U", "B">>)
Amount1000 == Str(<<"1", "0", "0", "0">>)
Amount500R == Str(<<"5", "0", "0", " ", "R">>)

BaseMap == [EmptyMap EXCEPT !.bank_name = BankX]

AmountAlphabet == {"0", "5", ",", " ", "R", "-"}

RECURSIVE TextsUpTo(_, _)
\* all texts over alphabet of length 0..n
TextsUpTo(alphabet, n) ==
    IF n = 0 THEN {<<>>}
    ELSE LET shorter == TextsUpTo(alphabet, n - 1)
         IN  shorter \cup {Append(t, c) : t \in shorter, c \in alphabet}

AmountValues ==
    {Absent, None, Num(0), Num(10000), Bool(TRUE), Bool(FALSE),
     Amount50000RUB, AmountRU, AmountAbcRUB,
     Amount0RUB, AmountMinus5RUB, Amount1000, Amount500R}
    \cup {Str(t) : t \in TextsUpTo(AmountAlphabet, MaxAmountLen)}

CurrencyValues == {Absent, None, RUB}

DateValues ==
    {Absent, None, Str(<<>>), Num(0), Num(5), Bool(FALSE), Bool(TRUE),
     Str(SentinelDate), Str(NotApplicable), Str(<<"en", "/", "de">>),
     Date18052024, Date15012025, Date1520, Date31022024, DateIso}

DealDateValues == {Absent, Str(SentinelDate), Date18052024, Str(<<>>)}

StatusValues == {Absent, None, Str(<<>>), Active, Closed, Paid, Num(1)}

BankValues == {Absent, None, Str(<<>>), Str(<<" ">>), Str(<<" ", "\t">>), BankX, Num(7)}

\* field maps in which only loan_amount and loan_currency vary
AmountMaps ==
    {[BaseMap EXCEPT !.loan_amount = a, !.loan_currency = c] :
        a \in AmountValues, c \in CurrencyValues}

\* field maps in which only the dates and loan_status vary
DateMaps ==
    {[BaseMap EXCEPT !.deal_date = dd, !.termination_date = td,
                     !.actual_termination_date = ad, !.loan_status = st] :
        dd \in DealDateValues, td \in DateValues, ad \in DateValues, st \in StatusValues}

\* field maps in which bank_name and the pass-through fields vary
BankMaps ==
    {[EmptyMap EXCEPT !.bank_name = b, !.deal_type = dt, !.card_usage = cu,
                      !.loan_amount = a, !.termination_date = td] :
        b \in BankValues, dt \in {Absent, BankX, Num(7)},
        cu \in {Absent, None, Bool(TRUE), Num(1), Num(7)},
        a \in {Absent, Amount50000RUB}, td \in {Absent, Date15012025}}

FieldMaps == AmountMaps \cup DateMaps \cup BankMaps

Object(fm) == [raises |-> FALSE, toks |-> <<"{}">>, fm |-> fm]
Reply(toks) == [raises |-> FALSE, toks |-> toks, fm |-> BaseMap]
Raises == [raises |-> TRUE, toks |-> <<>>, fm |-> EmptyMap]

MalformedReplies ==
    {Raises, Reply(<<>>), Reply(<<"junk">>), Reply(<<"scalar">>), Reply(<<"[", "]">>),
     Reply(<<"[", "{}", ",", "{}", "]">>), Reply(<<"[", "[", "{}", "]", "]">>),
     Reply(<<"{}", "junk">>), Reply(<<"ws", "[", "{}", "]">>), Reply(<<"[", "scalar", "]">>)}

\* replies given to the normaliser on its own
NormResponses ==
    {Object(fm) : fm \in FieldMaps} \cup MalformedReplies
    \cup {Reply(<<"[", "{}", "]">>), Reply(<<"ws", "{}", "ws">>)}
    \cup {Reply(toks) : toks \in TextsUpTo(JsonTokens, MaxReplyLen)}

\* replies given to the coordinator
CoordResponses ==
    {Raises, Reply(<<"junk">>),
     Object([BaseMap EXCEPT !.termination_date = Date15012025,
                            !.actual_termination_date = Date18052024,
                            !.loan_amount = Amount50000RUB]),
     Object([BaseMap EXCEPT !.bank_name = Str(<<" ">>)])}

(***************************************************************************)
(* The segmenter: extract_paragraphs_from_pdf.                             *)
(*                                                                         *)
(* A Cyrillic letter is written as the token of its Unicode name (doubled  *)
(* when the name is one letter), in capitals for the capital letter and in *)
(* small letters for the small one.                                        *)
(***************************************************************************)
CyrillicUpper ==
    <<"AA", "BE", "VE", "GHE", "DE", "IE", "ZE", "II", "SHORTI", "KA", "EL", "EM",
      "EN", "OO", "PE", "ER", "ES", "TE", "UU", "CHE", "SOFTSIGN", "YA">>

CyrillicLower ==
    <<"aa", "be", "ve", "ghe", "de", "ie", "ze", "ii", "shorti", "ka", "el", "em",
      "en", "oo", "pe", "er", "es", "te", "uu", "che", "softsign", "ya">>

\* re.IGNORECASE: a character of the text, folded to lower case
LowerChar(c) ==
    IF \E k \in 1..Len(CyrillicUpper) : CyrillicUpper[k] = c
    THEN CyrillicLower[CHOOSE k \in 1..Len(CyrillicUpper) : CyrillicUpper[k] = c]
    ELSE c

\* the five deal types of header_pattern; "s+" is \s+ and "s*" is \s*
DealTypes ==
    << <<"de", "oo", "ghe", "oo", "ve", "oo", "er", "s+", "ze", "aa", "shorti", "em", "aa",
         "s*", "(", "ka", "er", "ie", "de", "ii", "te", "aa", ")">>,
       <<"pe", "oo", "er", "uu", "che", "ii", "te", "ie", "el", "softsign", "es", "te",
         "ve", "oo", "s+", "pe", "oo", "s+", "ze", "aa", "shorti", "em", "uu",
         "s*", "(", "ka", "er", "ie", "de", "ii", "te", "uu", ")">>,
       <<"pe", "oo", "te", "er", "ie", "be", "ii", "te", ".", "ka", "er", "ie", "de",
         "ii", "te">>,
       <<"ka", "er", "ie", "de", "ii", "te", "en", "aa", "ya", "s+", "ka", "aa", "er",
         "te", "aa">>,
       <<"em", "ii", "ka", "er", "oo", "ka", "er", "ie", "de", "ii", "te">> >>

\* the first position at or after p whose character is not in class (the
\* position after the text when there is none): a greedy run of class
SkipRun(text, p, class) ==
    CHOOSE q \in p..(Len(text) + 1) :
        /\ q > Len(text) \/ text[q] \notin class
        /\ \A k \in p..(q - 1) : text[k] \in class

\* \s* from p
SkipSpace(text, p) == SkipRun(text, p, Whitespace)

\* \d* from p
SkipDigits(text, p) == SkipRun(text, p, Digits)

\* [^-]* from p
SkipToDash(text, p) ==
    CHOOSE q \in p..(Len(text) + 1) :
        /\ q > Len(text) \/ text[q] = "-"
        /\ \A k \in p..(q - 1) : text[k] # "-"

RECURSIVE PatternEnd(_, _, _)
\* one deal type matched at p: the position after it, 0 when it does not match
PatternEnd(text, p, pat) ==
    IF pat = <<>> THEN p
    ELSE IF Head(pat) = "s+"
    THEN (IF SkipSpace(text, p) > p THEN PatternEnd(text, SkipSpace(text, p), Tail(pat)) ELSE 0)
    ELSE IF Head(pat) = "s*"
    THEN PatternEnd(text, SkipSpace(text, p), Tail(pat))
    ELSE IF p <= Len(text) /\ LowerChar(text[p]) = Head(pat)
    THEN PatternEnd(text, p + 1, Tail(pat))
    ELSE 0

\* (?:...|...): the first deal type that matches at p
DealTypeEnd(text, p) ==
    LET hits == {k \in 1..Len(DealTypes) : PatternEnd(text, p, DealTypes[k]) # 0}
    IN  IF hits = {} THEN 0
        ELSE PatternEnd(text, p, DealTypes[CHOOSE k \in hits : \A m \in hits : k <= m])

\* \s*(?:-\s*([^-]+))? after the deal type: the position after the match
TailEnd(text, p) ==
    LET w == SkipSpace(text, p)
    IN  IF w < Len(text) /\ text[w] = "-" /\ text[w + 1] # "-"
        THEN SkipToDash(text, w + 1)
        ELSE w

\* \s+-\s+(?:deal type)... from the end b of the bank name
HeaderRest(text, b) ==
    LET dash == SkipSpace(text, b)
        type == SkipSpace(text, dash + 1)
    IN  IF dash > b /\ dash <= Len(text) /\ text[dash] = "-" /\ type > dash + 1
           /\ DealTypeEnd(text, type) # 0
        THEN TailEnd(text, DealTypeEnd(text, type))
        ELSE 0

\* header_pattern matched at position p (1-based) with re.VERBOSE |
\* re.MULTILINE | re.IGNORECASE: the position after the match, 0 when there is
\* none.  \s+ after the dot is greedy, the bank name (.+?) is lazy and stays
\* on one line.
HeaderEnd(text, p) ==
    LET dot == SkipDigits(text, p)
        ws == SkipSpace(text, dot + 1)
        Banks(a) == {b \in (a + 1)..(Len(text) + 1) :
                        /\ \A k \in a..(b - 1) : text[k] # "\n"
                        /\ HeaderRest(text, b) # 0}
        starts == {a \in (dot + 2)..ws : Banks(a) # {}}
    IN  IF /\ (p = 1 \/ text[p - 1] = "\n")
           /\ dot > p /\ dot <= Len(text) /\ text[dot] = "."
           /\ starts # {}
        THEN LET a == CHOOSE x \in starts : \A y \in starts : y <= x
                 b == CHOOSE x \in Banks(a) : \A y \in Banks(a) : x <= y
             IN  HeaderRest(text, b)
        ELSE 0

RECURSIVE finditer(_, _)
\* list(re.finditer(header_pattern, text, ...)) from position pos on: the
\* matches as [start, end) offsets (0-based), left to right, non-overlapping
finditer(text, pos) ==
    LET found == {p \in pos..Len(text) : HeaderEnd(text, p) # 0}
    IN  IF found = {} THEN <<>>
        ELSE LET p == CHOOSE x \in found : \A y \in found : x <= y
                 e == HeaderEnd(text, p)
             IN  <<[start |-> p - 1, end |-> e - 1]>> \o finditer(text, e)

\* text[start_pos:end_pos]
Slice(text, start_pos, end_pos) == SubSeq(text, start_pos + 1, end_pos)

\* re.sub(r'\s+', ' ', s)
Collapse(s) ==
    LET keep == SelectSeq([k \in 1..Len(s) |-> k],
                          LAMBDA k : s[k] \notin Whitespace \/ k = 1 \/ s[k - 1] \notin Whitespace)
    IN  [m \in 1..Len(keep) |-> IF s[keep[m]] \in Whitespace THEN " " ELSE s[keep[m]]]

\* s.replace('\n', ' ')
ReplaceNewline(s) == [k \in 1..Len(s) |-> IF s[k] = "\n" THEN " " ELSE s[k]]

\* lines 163-167: full_content of the candidate between two offsets
FullContent(text, start_pos, end_pos) ==
    ReplaceNewline(Collapse(Strip(Slice(text, start_pos, end_pos))))

(***************************************************************************)
(* State.                                                                  *)
(*   paragraphs, loans : the committed tables                              *)
(*   tx          : working copy of the open transaction of _store_loan     *)
(*   pc          : where the program is                                    *)
(*   unprocessed : the local list `paragraphs` of process_paragraphs       *)
(*   i, j        : start of the current batch, position inside it          *)
(*   batch_size, processed_count, success_count : its other locals; the    *)
(*                 parameter delay (>= 0) only sets how long a "sleep"     *)
(*                 lasts and is not kept                                   *)
(*   response    : what the chat completion did on the current call        *)
(*   result      : what extract_loan_parameters returned on that call      *)
(* Locals hold their initial values while they do not exist (outside       *)
(* process_paragraphs, and response/result outside the loop body).         *)
(*   log         : history: "start" of a run (id = number of paragraph     *)
(*                 rows at that time), "call" of the extractor for a       *)
(*                 paragraph, "sleep" (the rate-limit pause) after it      *)
(*   runs        : number of process_paragraphs calls so far               *)
(*   faults      : number of process terminations and storage exceptions   *)
(*                 so far                                                  *)
(***************************************************************************)
VARIABLES paragraphs, loans, tx, pc, unprocessed, i, j, batch_size,
          processed_count, success_count, response, result, log, runs, faults

(***************************************************************************)
(* State of extract_paragraphs_from_pdf and of main.                       *)
(*   pdf         : reader.pages as the text extract_text gives per page    *)
(*   start_page, end_page : the page range asked for (start_page >= 1)     *)
(*   seg_pc      : where extract_paragraphs_from_pdf is                    *)
(*   page_num, headers, header_i, extracted_count : its locals (header_i   *)
(*                 is the index `i` of the loop over headers)              *)
(*   spans       : history: every candidate entry the loop formed, with    *)
(*                 the call it belongs to, its page, its offsets in the    *)
(*                 page text, its content and the id of the row it was     *)
(*                 stored as (0 when it was not stored)                    *)
(*   seg_runs    : number of extract_paragraphs_from_pdf calls so far      *)
(*   main_pc     : where main is ("lib" when the class is used without it) *)
(*   api_key     : whether MISTRAL_API_KEY is set                          *)
(*   stats       : the statistics main has logged                          *)
(***************************************************************************)
VARIABLES pdf, start_page, end_page, seg_pc, page_num, headers, header_i,
          extracted_count, spans, seg_runs, main_pc, api_key, stats

seg == <<pdf, start_page, end_page, seg_pc, page_num, headers, header_i,
         extracted_count, spans, seg_runs, main_pc, api_key, stats>>

vars == <<paragraphs, loans, tx, pc, unprocessed, i, j, batch_size,
          processed_count, success_count, response, result, log, runs, faults,
          pdf, start_page, end_page, seg_pc, page_num, headers, header_i,
          extracted_count, spans, seg_runs, main_pc, api_key, stats>>

coord == <<loans, tx, pc, unprocessed, i, j, batch_size, processed_count,
           success_count, response, result, log, runs, faults>>

\* nothing logged yet; success_rate is kept as a fraction
NoStats ==
    [reported |-> FALSE, total_paragraphs |-> 0, processed_paragraphs |-> 0,
     total_loans |-> 0, error_paragraphs |-> 0, success_rate |-> <<0, 1>>]

\* no document is open and main is not running
SegIdle ==
    /\ pdf = <<>>
    /\ start_page = 1
    /\ end_page = 0
    /\ seg_pc = "idle"
    /\ page_num = 0
    /\ headers = <<>>
    /\ header_i = 0
    /\ extracted_count = 0
    /\ spans = <<>>
    /\ seg_runs = 0
    /\ main_pc = "lib"
    /\ api_key = TRUE
    /\ stats = NoStats

store == <<paragraphs, loans>>
locals == <<unprocessed, i, j, batch_size, processed_count, success_count>>

NoTx == [paragraphs |-> <<>>, loans |-> <<>>]

Init ==
    /\ paragraphs = <<>>
    /\ loans = <<>>
    /\ tx = NoTx
    /\ pc = "idle"
    /\ unprocessed = <<>>
    /\ i = 0
    /\ j = 0
    /\ batch_size = 1
    /\ processed_count = 0
    /\ success_count = 0
    /\ response = Raises
    /\ result = ReturnNone
    /\ log = <<>>
    /\ runs = 0
    /\ faults = 0
    /\ SegIdle

\* the paragraph of the current loop iteration
Current == Batch(unprocessed, i, batch_size)[j + 1]

CallEvent(id, r) == [ev |-> "call", id |-> id, response |-> r]
SleepEvent(id) == [ev |-> "sleep", id |-> id, response |-> Raises]
StartEvent(rows) == [ev |-> "start", id |-> rows, response |-> Raises]

\* _store_paragraph, as called by extract_paragraphs_from_pdf for one entry
StoreParagraph ==
    /\ pc = "idle"
    /\ Len(paragraphs) < MaxParagraphs
    /\ paragraphs' = Append(paragraphs, NewParagraph(Len(paragraphs) + 1))
    /\ UNCHANGED <<loans, tx, pc, locals, response, result, log, runs, faults>>
    /\ UNCHANGED seg

\* process_paragraphs, lines 389-403: select, return when there is nothing;
\* sizes are the values the caller may pass as batch_size
StartRunWith(sizes) ==
    /\ pc = "idle"
    /\ runs < MaxRuns
    /\ runs' = runs + 1
    /\ log' = Append(log, StartEvent(Len(paragraphs)))
    /\ IF get_unprocessed_paragraphs(paragraphs) = <<>>
       THEN UNCHANGED <<pc, locals>>
       ELSE /\ \E size \in sizes : batch_size' = size
            /\ unprocessed' = get_unprocessed_paragraphs(paragraphs)
            /\ i' = 0
            /\ j' = 0
            /\ processed_count' = 0
            /\ success_count' = 0
            /\ pc' = "extract"
    /\ UNCHANGED <<paragraphs, loans, tx, response, result, faults>>
    /\ UNCHANGED seg

\* process_paragraphs called with any batch_size of the model
StartRun == StartRunWith(1..MaxBatch)

\* line 410: loan = self.extract_loan_parameters(paragraph)
CallExtractor ==
    /\ pc = "extract"
    /\ \E r \in CoordResponses :
          /\ response' = r
          /\ result' = extract_loan_parameters(r, Current)
          /\ log' = Append(log, CallEvent(Current, r))
    /\ pc' = "record"
    /\ UNCHANGED <<paragraphs, loans, tx, locals, runs, faults>>
    /\ UNCHANGED seg

\* process_paragraphs is left: by return, by an exception or with the process
Return ==
    /\ pc' = "idle"
    /\ unprocessed' = <<>>
    /\ i' = 0
    /\ j' = 0
    /\ batch_size' = 1
    /\ processed_count' = 0
    /\ success_count' = 0
    /\ response' = Raises
    /\ result' = ReturnNone

\* the outer loop steps by batch_size + 1
NextParagraphSkipping(succeeded) ==
    IF j + 1 < Len(Batch(unprocessed, i, batch_size)) \/ i + batch_size + 1 < Len(unprocessed)
    THEN /\ IF j + 1 < Len(Batch(unprocessed, i, batch_size))
            THEN j' = j + 1 /\ i' = i
            ELSE j' = 0 /\ i' = i + batch_size + 1
         /\ pc' = "extract"
         /\ processed_count' = processed_count + 1
         /\ success_count' = IF succeeded THEN success_count + 1 ELSE success_count
         /\ response' = Raises
         /\ result' = ReturnNone
         /\ UNCHANGED <<unprocessed, batch_size>>
    ELSE Return

\* lines 414, 419/431 and the loop headers of lines 405 and 408: count, then
\* the next paragraph, the next batch, or the end of the run
NextParagraph(succeeded) ==
    IF j + 1 < Len(Batch(unprocessed, i, batch_size)) \/ i + batch_size < Len(unprocessed)
    THEN /\ IF j + 1 < Len(Batch(unprocessed, i, batch_size))
            THEN j' = j + 1 /\ i' = i
            ELSE j' = 0 /\ i' = i + batch_size
         /\ pc' = "extract"
         /\ processed_count' = processed_count + 1
         /\ success_count' = IF succeeded THEN success_count + 1 ELSE success_count
         /\ response' = Raises
         /\ result' = ReturnNone
         /\ UNCHANGED <<unprocessed, batch_size>>
    ELSE Return

\* lines 412-413 and 440-452: loan is not None, _store_loan runs its INSERT
StoreLoanInsert ==
    /\ pc = "record"
    /\ ~result.is_none
    /\ tx' = InsertLoan([paragraphs |-> paragraphs, loans |-> loans], result.loan).tx
    /\ loans' = InsertLoan([paragraphs |-> paragraphs, loans |-> loans], result.loan).db.loans
    /\ paragraphs' = InsertLoan([paragraphs |-> paragraphs, loans |-> loans], result.loan).db.paragraphs
    /\ pc' = "inserted"
    /\ UNCHANGED <<locals, response, result, log, runs, faults>>
    /\ UNCHANGED seg

\* lines 455-458: the UPDATE of _store_loan
StoreLoanUpdate ==
    /\ pc = "inserted"
    /\ tx' = UpdateProcessed(tx, result.loan.paragraph_id.n)
    /\ pc' = "updated"
    /\ UNCHANGED <<store, locals, response, result, log, runs, faults>>
    /\ UNCHANGED seg

\* line 459 and lines 414-426: commit, count, pause, go on
StoreLoanCommit ==
    /\ pc = "updated"
    /\ paragraphs' = tx.paragraphs
    /\ loans' = tx.loans
    /\ tx' = NoTx
    /\ log' = Append(log, SleepEvent(Current))
    /\ NextParagraph(TRUE)
    /\ UNCHANGED <<runs, faults>>
    /\ UNCHANGED seg

\* a failed paragraph ends the run
MarkErrorAndStop ==
    /\ pc = "record"
    /\ result.is_none
    /\ paragraphs' = _mark_paragraph_error(paragraphs, Current, FailedToExtract)
    /\ log' = Append(log, SleepEvent(Current))
    /\ Return
    /\ UNCHANGED <<loans, tx, runs, faults>>
    /\ UNCHANGED seg

\* lines 416-426: loan is None, mark the paragraph, count, pause, go on
MarkError ==
    /\ pc = "record"
    /\ result.is_none
    /\ paragraphs' = _mark_paragraph_error(paragraphs, Current, FailedToExtract)
    /\ log' = Append(log, SleepEvent(Current))
    /\ NextParagraph(FALSE)
    /\ UNCHANGED <<loans, tx, runs, faults>>
    /\ UNCHANGED seg

Next ==
    \/ StoreParagraph
    \/ StartRun
    \/ CallExtractor
    \/ StoreLoanInsert
    \/ StoreLoanUpdate
    \/ StoreLoanCommit
    \/ MarkError

Spec == Init /\ [][Next]_vars

\* process_paragraphs is sequential code: once it is called each of its
\* statements is executed in turn, the extractor call returns or raises and
\* time.sleep returns.  Paragraphs are stored and runs are started by the
\* caller, who is free not to.
Fairness ==
    /\ WF_vars(CallExtractor)
    /\ WF_vars(StoreLoanInsert)
    /\ WF_vars(StoreLoanUpdate)
    /\ WF_vars(StoreLoanCommit)
    /\ WF_vars(MarkError)

SpecFair == Init /\ [][Next]_vars /\ Fairness

(***************************************************************************)
(* The same program when the process can be terminated at any point and    *)
(* when a statement on the SQLite connection can raise.                    *)
(***************************************************************************)
\* process termination inside process_paragraphs: an open transaction is
\* rolled back, the locals are gone
Crash ==
    /\ pc \in {"extract", "record", "inserted", "updated", "failed"}
    /\ faults < MaxFaults
    /\ faults' = faults + 1
    /\ Return
    /\ tx' = NoTx
    /\ UNCHANGED <<store, log, runs>>
    /\ UNCHANGED seg

\* a statement of _store_loan raises: the `with` block rolls back and the
\* exception reaches line 428
StoreLoanFails ==
    /\ \/ pc = "record" /\ ~result.is_none
       \/ pc \in {"inserted", "updated"}
    /\ faults < MaxFaults
    /\ faults' = faults + 1
    /\ pc' = "failed"
    /\ tx' = NoTx
    /\ UNCHANGED <<store, locals, response, result, log, runs>>
    /\ UNCHANGED seg

\* the UPDATE of _mark_paragraph_error at line 417 raises
MarkErrorFails ==
    /\ pc = "record"
    /\ result.is_none
    /\ faults < MaxFaults
    /\ faults' = faults + 1
    /\ pc' = "failed"
    /\ UNCHANGED <<store, tx, locals, response, result, log, runs>>
    /\ UNCHANGED seg

\* lines 428-431: the handler marks the paragraph with str(e); no pause
HandleException ==
    /\ pc = "failed"
    /\ paragraphs' = _mark_paragraph_error(paragraphs, Current, StorageError)
    /\ NextParagraph(FALSE)
    /\ UNCHANGED <<loans, tx, log, runs, faults>>
    /\ UNCHANGED seg

\* the UPDATE at line 430 raises too: the exception leaves process_paragraphs
HandlerFails ==
    /\ pc = "failed"
    /\ Return
    /\ UNCHANGED <<store, tx, log, runs, faults>>
    /\ UNCHANGED seg

NextCrash ==
    \/ StoreParagraph
    \/ StartRun
    \/ CallExtractor
    \/ StoreLoanInsert
    \/ StoreLoanUpdate
    \/ StoreLoanCommit
    \/ MarkError
    \/ Crash
    \/ StoreLoanFails
    \/ MarkErrorFails
    \/ HandleException
    \/ HandlerFails

SpecCrash == Init /\ [][NextCrash]_vars

(***************************************************************************)
(* The normaliser on its own: extract_loan_parameters applied to one       *)
(* paragraph, for every reply of NormResponses.                            *)
(***************************************************************************)
InitNorm ==
    /\ paragraphs = <<NewParagraph(1)>>
    /\ loans = <<>>
    /\ tx = NoTx
    /\ pc = "call"
    /\ unprocessed = <<1>>
    /\ i = 0
    /\ j = 0
    /\ batch_size = 1
    /\ processed_count = 0
    /\ success_count = 0
    /\ response \in NormResponses
    /\ result = ReturnNone
    /\ log = <<>>
    /\ runs = 0
    /\ faults = 0
    /\ SegIdle

NormalizeCall ==
    /\ pc = "call"
    /\ result' = extract_loan_parameters(response, Current)
    /\ pc' = "returned"
    /\ UNCHANGED <<store, tx, locals, response, log, runs, faults>>
    /\ UNCHANGED seg

NextNorm == NormalizeCall

SpecNorm == InitNorm /\ [][NextNorm]_vars

(***************************************************************************)
(* Page texts for the segmenter.  A page is a concatenation of chunks:     *)
(* entries (a header line and a body line of a given length), text that    *)
(* precedes any header, a blank line, and an entry whose header ends in    *)
(* " - " followed by text, which makes the match run into the next line.   *)
(***************************************************************************)
HeaderLine ==
    <<"1", ".", " ", "B", " ", "-", " ",
      "EM", "ii", "ka", "er", "oo", "ka", "er", "ie", "de", "ii", "te">>

CardHeaderLine ==
    <<"2", ".", " ", "B", " ", "-", " ",
      "KA", "er", "ie", "de", "ii", "te", "en", "aa", "ya", " ",
      "ka", "aa", "er", "te", "aa", " ", "-", " ", "x">>

Filler(n) == [k \in 1..n |-> "x"]

\* a header line, a body of n characters, a newline
Entry(n) == HeaderLine \o <<"\n">> \o Filler(n) \o <<"\n">>

Continuation == <<"x", " ", " ", "x", "\n">>
BlankLine == <<" ", "\n">>
RunOnEntry == CardHeaderLine \o <<"\n">> \o HeaderLine \o <<"\n">>

\* body lengths that give entries of 50, 100 and 101 characters
BodyLengths == {31, 81, 82}

Chunks == {Entry(n) : n \in BodyLengths} \cup {Continuation, BlankLine, RunOnEntry}

RECURSIVE PageTextsOf(_)
\* all concatenations of at most n chunks
PageTextsOf(n) ==
    IF n = 0 THEN {<<>>}
    ELSE PageTextsOf(n - 1) \cup {t \o c : t \in PageTextsOf(n - 1), c \in Chunks}

PageTexts == PageTextsOf(MaxChunks)

\* the pages of a document of several pages: no text, a blank line, an entry,
\* an entry after the end of the entry of the page before
OtherPages == {<<>>, BlankLine, Entry(82), Continuation \o Entry(82)}

RECURSIVE DocumentsOf(_)
\* all sequences of n pages of OtherPages
DocumentsOf(n) ==
    IF n = 0 THEN {<<>>}
    ELSE {Append(ps, t) : ps \in DocumentsOf(n - 1), t \in OtherPages}

\* documents: one page of PageTexts, or 2..MaxPages pages of OtherPages
Pdfs ==
    {<<t>> : t \in PageTexts} \cup UNION {DocumentsOf(n) : n \in 2..MaxPages}

\* the page ranges asked for: the whole document, its first page, from page 2
\* to beyond its end
PageRanges == {<<1, MaxPages>>, <<1, 1>>, <<2, MaxPages + 1>>}

(***************************************************************************)
(* extract_paragraphs_from_pdf, one action per step of its two loops.      *)
(***************************************************************************)
MinContentLength == 100

\* a row is inserted only when no row has this content and page yet
_store_paragraph_unique(ps, content, page_number) ==
    IF \E k \in 1..Len(ps) : ps[k].content = content /\ ps[k].page_number = page_number
    THEN ps
    ELSE Append(ps, [id |-> Len(ps) + 1, content |-> content, page_number |-> page_number,
                     processed |-> FALSE, processing_error |-> NULL])

\* _store_paragraph: INSERT INTO paragraphs (content, page_number); the id is
\* AUTOINCREMENT, processed defaults to FALSE
_store_paragraph(ps, content, page_number) ==
    Append(ps, [id |-> Len(ps) + 1, content |-> content, page_number |-> page_number,
                processed |-> FALSE, processing_error |-> NULL])

\* the page number is the index in the range of the call
PageNumberInRange(n) == n + 1 - (start_page - 1)

\* line 173: page_num + 1, the 1-based number of the page in the document
PageNumber(n) == n + 1

\* min(end_page, len(reader.pages))
LastPage == IF end_page < Len(pdf) THEN end_page ELSE Len(pdf)

\* the entry ends where the match of its header ends
EndPosAtMatchEnd(hs, k, text) == hs[k + 1].end

\* line 160: the next header or the end of the text
EndPos(hs, k, text) == IF k + 1 < Len(hs) THEN hs[k + 2].start ELSE Len(text)

\* lines 124-144: the call, up to the loop over the pages
ExtractStart ==
    /\ seg_pc = "idle"
    /\ seg_runs < MaxExtractions
    /\ seg_runs' = seg_runs + 1
    /\ extracted_count' = 0
    /\ page_num' = start_page - 1
    /\ seg_pc' = "pages"
    /\ UNCHANGED <<pdf, start_page, end_page, headers, header_i, spans, main_pc,
                   api_key, stats>>
    /\ UNCHANGED <<paragraphs, coord>>

\* lines 146-151: a page whose text is empty or blank is skipped
SkipPage ==
    /\ seg_pc = "pages"
    /\ page_num < LastPage
    /\ Strip(pdf[page_num + 1]) = <<>>
    /\ page_num' = page_num + 1
    /\ UNCHANGED <<pdf, start_page, end_page, seg_pc, headers, header_i,
                   extracted_count, spans, seg_runs, main_pc, api_key, stats>>
    /\ UNCHANGED <<paragraphs, coord>>

\* lines 146-154: the headers of the next page
FindHeaders ==
    /\ seg_pc = "pages"
    /\ page_num < LastPage
    /\ Strip(pdf[page_num + 1]) # <<>>
    /\ headers' = finditer(pdf[page_num + 1], 1)
    /\ header_i' = 0
    /\ seg_pc' = "headers"
    /\ UNCHANGED <<pdf, start_page, end_page, page_num, extracted_count, spans,
                   seg_runs, main_pc, api_key, stats>>
    /\ UNCHANGED <<paragraphs, coord>>

\* lines 157-175: one entry between two headers, stored when it is long enough
Candidate ==
    /\ seg_pc = "headers"
    /\ header_i < Len(headers)
    /\ LET text == pdf[page_num + 1]
           start_pos == headers[header_i + 1].start
           end_pos == EndPos(headers, header_i, text)
           full_content == FullContent(text, start_pos, end_pos)
           stored == IF Len(full_content) > MinContentLength
                     THEN _store_paragraph(paragraphs, full_content, PageNumber(page_num))
                     ELSE paragraphs
       IN  /\ paragraphs' = stored
           /\ extracted_count' = IF Len(full_content) > MinContentLength
                                 THEN extracted_count + 1 ELSE extracted_count
           /\ spans' = Append(spans,
                  [run |-> seg_runs, page |-> page_num + 1, start |-> start_pos,
                   end |-> end_pos, content |-> full_content,
                   id |-> IF Len(stored) > Len(paragraphs) THEN Len(stored) ELSE 0])
    /\ header_i' = header_i + 1
    /\ UNCHANGED <<pdf, start_page, end_page, seg_pc, page_num, headers, seg_runs,
                   main_pc, api_key, stats>>
    /\ UNCHANGED coord

\* the loop over the headers of the page is over
PageDone ==
    /\ seg_pc = "headers"
    /\ header_i = Len(headers)
    /\ page_num' = page_num + 1
    /\ headers' = <<>>
    /\ header_i' = 0
    /\ seg_pc' = "pages"
    /\ UNCHANGED <<pdf, start_page, end_page, extracted_count, spans, seg_runs,
                   main_pc, api_key, stats>>
    /\ UNCHANGED <<paragraphs, coord>>

\* lines 180-181: return extracted_count (kept until the next call)
ExtractReturn ==
    /\ seg_pc = "pages"
    /\ page_num >= LastPage
    /\ page_num' = 0
    /\ seg_pc' = "idle"
    /\ UNCHANGED <<pdf, start_page, end_page, headers, header_i, extracted_count,
                   spans, seg_runs, main_pc, api_key, stats>>
    /\ UNCHANGED <<paragraphs, coord>>

\* the segmenter on its own, called up to MaxExtractions times on one document
InitSeg ==
    /\ paragraphs = <<>>
    /\ loans = <<>>
    /\ tx = NoTx
    /\ pc = "idle"
    /\ unprocessed = <<>>
    /\ i = 0
    /\ j = 0
    /\ batch_size = 1
    /\ processed_count = 0
    /\ success_count = 0
    /\ response = Raises
    /\ result = ReturnNone
    /\ log = <<>>
    /\ runs = 0
    /\ faults = 0
    /\ pdf \in Pdfs
    /\ \E r \in PageRanges : start_page = r[1] /\ end_page = r[2]
    /\ seg_pc = "idle"
    /\ page_num = 0
    /\ headers = <<>>
    /\ header_i = 0
    /\ extracted_count = 0
    /\ spans = <<>>
    /\ seg_runs = 0
    /\ main_pc = "lib"
    /\ api_key = TRUE
    /\ stats = NoStats

NextSeg ==
    \/ ExtractStart
    \/ SkipPage
    \/ FindHeaders
    \/ Candidate
    \/ PageDone
    \/ ExtractReturn

SpecSeg == InitSeg /\ [][NextSeg]_vars

(***************************************************************************)
(* main: one invocation with well-formed arguments on a new database.      *)
(***************************************************************************)
MainBatchSize == 5

\* get_statistics: the four COUNT(*) queries and the success rate
get_statistics(ps, ls) ==
    LET total == Len(ps)
        processed == Cardinality({k \in 1..Len(ps) : ps[k].processed})
        errors == Cardinality({k \in 1..Len(ps) : ps[k].processing_error # NULL})
    IN  [reported |-> TRUE, total_paragraphs |-> total, processed_paragraphs |-> processed,
         total_loans |-> Len(ls), error_paragraphs |-> errors,
         success_rate |-> IF total > 0 THEN <<processed - errors, total>> ELSE <<0, 1>>]

\* main without the check of lines 546-549: the run goes on with no key
MainNoApiKeyIgnored ==
    /\ main_pc = "start"
    /\ ~api_key
    /\ main_pc' = "step1"
    /\ UNCHANGED <<pdf, start_page, end_page, seg_pc, page_num, headers, header_i,
                   extracted_count, spans, seg_runs, api_key, stats>>
    /\ UNCHANGED <<paragraphs, coord>>

\* lines 545-549: MISTRAL_API_KEY is not set, sys.exit(1)
MainNoApiKey ==
    /\ main_pc = "start"
    /\ ~api_key
    /\ main_pc' = "exit1"
    /\ UNCHANGED <<pdf, start_page, end_page, seg_pc, page_num, headers, header_i,
                   extracted_count, spans, seg_runs, api_key, stats>>
    /\ UNCHANGED <<paragraphs, coord>>

\* lines 552-556: the processor is built, step 1 begins
MainStep1 ==
    /\ main_pc = "start"
    /\ api_key
    /\ main_pc' = "step1"
    /\ UNCHANGED <<pdf, start_page, end_page, seg_pc, page_num, headers, header_i,
                   extracted_count, spans, seg_runs, api_key, stats>>
    /\ UNCHANGED <<paragraphs, coord>>

\* line 557: extracted_count = processor.extract_paragraphs_from_pdf(...)
MainExtract ==
    /\ main_pc = "step1"
    /\ seg_runs = 0
    /\ ExtractStart

\* lines 559-561: nothing was extracted, main returns
MainNoParagraphs ==
    /\ main_pc = "step1"
    /\ seg_runs = 1 /\ seg_pc = "idle"
    /\ extracted_count = 0
    /\ main_pc' = "returned"
    /\ UNCHANGED <<pdf, start_page, end_page, seg_pc, page_num, headers, header_i,
                   extracted_count, spans, seg_runs, api_key, stats>>
    /\ UNCHANGED <<paragraphs, coord>>

\* lines 563-564: step 2 begins
MainStep2 ==
    /\ main_pc = "step1"
    /\ seg_runs = 1 /\ seg_pc = "idle"
    /\ extracted_count # 0
    /\ main_pc' = "step2"
    /\ UNCHANGED <<pdf, start_page, end_page, seg_pc, page_num, headers, header_i,
                   extracted_count, spans, seg_runs, api_key, stats>>
    /\ UNCHANGED <<paragraphs, coord>>

\* line 565: processor.process_paragraphs(batch_size=5, delay=1.0)
MainProcess ==
    /\ main_pc = "step2"
    /\ runs = 0
    /\ StartRunWith({MainBatchSize})

\* lines 567-569: process_paragraphs has returned, export_to_csv writes the file
MainExport ==
    /\ main_pc = "step2"
    /\ runs = 1 /\ pc = "idle"
    /\ main_pc' = "step3"
    /\ UNCHANGED <<pdf, start_page, end_page, seg_pc, page_num, headers, header_i,
                   extracted_count, spans, seg_runs, api_key, stats>>
    /\ UNCHANGED <<paragraphs, coord>>

\* lines 582-584: export_to_csv raises (the file cannot be written), sys.exit(1)
MainExportFails ==
    /\ main_pc = "step2"
    /\ runs = 1 /\ pc = "idle"
    /\ main_pc' = "exit1"
    /\ UNCHANGED <<pdf, start_page, end_page, seg_pc, page_num, headers, header_i,
                   extracted_count, spans, seg_runs, api_key, stats>>
    /\ UNCHANGED <<paragraphs, coord>>

\* lines 571-580: the statistics are read and logged, main returns
MainStatistics ==
    /\ main_pc = "step3"
    /\ stats' = get_statistics(paragraphs, loans)
    /\ main_pc' = "returned"
    /\ UNCHANGED <<pdf, start_page, end_page, seg_pc, page_num, headers, header_i,
                   extracted_count, spans, seg_runs, api_key>>
    /\ UNCHANGED <<paragraphs, coord>>

\* the documents main is run on: those of several pages, one page with two
\* entries, one page with an entry that is too short
MainPdfs ==
    UNION {DocumentsOf(n) : n \in 2..MaxPages}
    \cup {<<Entry(82) \o Entry(82)>>, <<Entry(81)>>}

InitMain ==
    /\ paragraphs = <<>>
    /\ loans = <<>>
    /\ tx = NoTx
    /\ pc = "idle"
    /\ unprocessed = <<>>
    /\ i = 0
    /\ j = 0
    /\ batch_size = 1
    /\ processed_count = 0
    /\ success_count = 0
    /\ response = Raises
    /\ result = ReturnNone
    /\ log = <<>>
    /\ runs = 0
    /\ faults = 0
    /\ pdf \in MainPdfs
    /\ \E r \in PageRanges : start_page = r[1] /\ end_page = r[2]
    /\ seg_pc = "idle"
    /\ page_num = 0
    /\ headers = <<>>
    /\ header_i = 0
    /\ extracted_count = 0
    /\ spans = <<>>
    /\ seg_runs = 0
    /\ main_pc = "start"
    /\ api_key \in BOOLEAN
    /\ stats = NoStats

NextMain ==
    \/ MainNoApiKey
    \/ MainStep1
    \/ MainExtract
    \/ SkipPage
    \/ FindHeaders
    \/ Candidate
    \/ PageDone
    \/ ExtractReturn
    \/ MainNoParagraphs
    \/ MainStep2
    \/ MainProcess
    \/ CallExtractor
    \/ StoreLoanInsert
    \/ StoreLoanUpdate
    \/ StoreLoanCommit
    \/ MarkError
    \/ MainExport
    \/ MainExportFails
    \/ MainStatistics

SpecMain == InitMain /\ [][NextMain]_vars

(***************************************************************************)
(* The processor used as a library: extract_paragraphs_from_pdf and        *)
(* process_paragraphs called in any order on one store, one call at a      *)
(* time (lines 554-565 are one such order).                                *)
(***************************************************************************)
\* one page: an entry that is stored, with or without one that is too short
\* beside it, an entry that is too short, a blank page
LibPdfs == {<<Entry(82)>>, <<Entry(82) \o Entry(31)>>, <<Entry(81)>>, <<BlankLine>>}

InitLib ==
    /\ paragraphs = <<>>
    /\ loans = <<>>
    /\ tx = NoTx
    /\ pc = "idle"
    /\ unprocessed = <<>>
    /\ i = 0
    /\ j = 0
    /\ batch_size = 1
    /\ processed_count = 0
    /\ success_count = 0
    /\ response = Raises
    /\ result = ReturnNone
    /\ log = <<>>
    /\ runs = 0
    /\ faults = 0
    /\ pdf \in LibPdfs
    /\ start_page = 1
    /\ end_page = 1
    /\ seg_pc = "idle"
    /\ page_num = 0
    /\ headers = <<>>
    /\ header_i = 0
    /\ extracted_count = 0
    /\ spans = <<>>
    /\ seg_runs = 0
    /\ main_pc = "lib"
    /\ api_key = TRUE
    /\ stats = NoStats

\* extract_paragraphs_from_pdf is called while process_paragraphs is not running
LibExtract ==
    /\ pc = "idle"
    /\ ExtractStart

\* process_paragraphs is called while extract_paragraphs_from_pdf is not running
LibProcess ==
    /\ seg_pc = "idle"
    /\ StartRun

NextLib ==
    \/ LibExtract
    \/ SkipPage
    \/ FindHeaders
    \/ Candidate
    \/ PageDone
    \/ ExtractReturn
    \/ LibProcess
    \/ CallExtractor
    \/ StoreLoanInsert
    \/ StoreLoanUpdate
    \/ StoreLoanCommit
    \/ MarkError

SpecLib == InitLib /\ [][NextLib]_vars

(***************************************************************************)
(* Properties of the normaliser (checked under SpecNorm).                  *)
(***************************************************************************)
Present(v) == v.t \notin {"null", "absent"}

Returned == pc = "returned"

\* the reply was one JSON object and nothing else
PlainObject == ~response.raises /\ response.toks = <<"{}">>

\* C1: when normalization succeeds and the field map supplies no loan_status,
\* the status follows the table: sentinel seen for termination_date -> Active
\* (even with a valid actual_termination_date); termination_date present and
\* actual_termination_date absent -> Active; both present -> Closed; no
\* termination_date -> Active.
C1_StatusTable ==
    (Returned /\ PlainObject /\ ~result.is_none /\ ~Present(response.fm.loan_status)) =>
        LET loan == result.loan
        IN  /\ response.fm.termination_date = Str(SentinelDate) => loan.loan_status = Active
            /\ (Present(loan.termination_date) /\ ~Present(loan.actual_termination_date))
                  => loan.loan_status = Active
            /\ (Present(loan.termination_date) /\ Present(loan.actual_termination_date))
                  => loan.loan_status = Closed
            /\ ~Present(loan.termination_date) => loan.loan_status = Active

\* C1 witness: sentinel termination_date with a valid actual_termination_date
\* has been normalized, the actual date is in the record and the status is Active
C1_Witness ==
    /\ Returned /\ PlainObject /\ ~result.is_none
    /\ ~Present(response.fm.loan_status)
    /\ response.fm.termination_date = Str(SentinelDate)
    /\ response.fm.actual_termination_date = Date18052024
    /\ result.loan.actual_termination_date = Date(2024, 5, 18)
    /\ result.loan.loan_status = Active

\* C7: in every loan record produced, loan_currency is present if and only if
\* loan_amount is present.
C7_CurrencyIffAmount ==
    (Returned /\ ~result.is_none) =>
        (Present(result.loan.loan_currency) <=> Present(result.loan.loan_amount))

\* C8: every loan record produced has loan_status set to Active or Closed,
\* also when the field map supplies its own loan_status.
C8_StatusActiveOrClosed ==
    (Returned /\ ~result.is_none) => result.loan.loan_status \in {Active, Closed}

\* the field map has a valid bank_name and nothing but loan_amount and
\* loan_currency besides
OnlyAmountVaries(fm) ==
    [fm EXCEPT !.loan_amount = Absent, !.loan_currency = Absent] = BaseMap

\* text.strip() of the part before the last three characters is not a number
Unsplittable(text) ==
    \/ Len(text) < CurrencyLen
    \/ ~PyFloat(ReplaceComma(DropLast3(text))).ok

\* C9: the amount/currency split is never fatal: with a valid bank_name a loan
\* record is produced for every loan_amount value (string, number, boolean,
\* null, absent), and a string that cannot be split and parsed leaves both
\* loan_amount and loan_currency absent.
C9_AmountNeverFatal ==
    (Returned /\ PlainObject /\ OnlyAmountVaries(response.fm)) =>
        /\ ~result.is_none
        /\ (response.fm.loan_amount.t = "str" /\ Unsplittable(response.fm.loan_amount.s))
              => (~Present(result.loan.loan_amount) /\ ~Present(result.loan.loan_currency))

Letters == {"R", "U", "B", "a", "b", "c"}

\* digits, optionally followed by one separator and more digits
NumeralText(t) ==
    /\ t # <<>>
    /\ \A k \in 1..Len(t) : t[k] \in Digits \cup {",", "."}
    /\ Count(t, ",") + Count(t, ".") <= 1
    /\ t[1] \in Digits /\ t[Len(t)] \in Digits

\* the decimal number a numeral text denotes, comma or dot as separator
NumeralValue(t) ==
    LET sep == IF IndexOf(t, ",") # 0 THEN IndexOf(t, ",") ELSE IndexOf(t, ".")
        whole == IF sep = 0 THEN t ELSE SubSeq(t, 1, sep - 1)
        frac == IF sep = 0 THEN <<>> ELSE DropTrailingZeros(SubSeq(t, sep + 1, Len(t)))
    IN  Float(DigitsValue(whole \o frac), Len(frac))

\* a numeral, an optional space, a 3-letter currency code
CombinedAmount(t) ==
    /\ Len(t) > CurrencyLen
    /\ \A k \in (Len(t) - 2)..Len(t) : t[k] \in Letters
    /\ \/ NumeralText(DropLast3(t))
       \/ /\ Len(t) > CurrencyLen + 1
          /\ t[Len(t) - 3] = " "
          /\ NumeralText(SubSeq(t, 1, Len(t) - 4))

NumeralOf(t) ==
    IF t[Len(t) - 3] = " " THEN SubSeq(t, 1, Len(t) - 4) ELSE DropLast3(t)

\* C10: for a numeral followed by a 3-letter currency code, loan_currency is
\* the trailing 3 characters and loan_amount the rest read as a decimal with
\* comma as the decimal separator ("50000,00 RUB" -> 50000.00 and "RUB");
\* "RU" and "abc RUB" give both absent.
C10_AmountSplit ==
    (Returned /\ PlainObject /\ OnlyAmountVaries(response.fm)) =>
        LET a == response.fm.loan_amount
        IN  /\ (a.t = "str" /\ CombinedAmount(a.s)) =>
                  /\ ~result.is_none
                  /\ result.loan.loan_currency = Str(Last3(a.s))
                  /\ result.loan.loan_amount = NumeralValue(NumeralOf(a.s))
            /\ a = Amount50000RUB =>
                  /\ ~result.is_none
                  /\ result.loan.loan_amount = Float(50000, 0)
                  /\ result.loan.loan_currency = RUB
            /\ a \in {AmountRU, AmountAbcRUB} =>
                  /\ ~result.is_none
                  /\ ~Present(result.loan.loan_amount)
                  /\ ~Present(result.loan.loan_currency)

\* C10 witness: "50000,00 RUB" has been split into 50000.00 and "RUB"
C10_Witness ==
    /\ Returned /\ PlainObject
    /\ response.fm.loan_amount = Amount50000RUB
    /\ ~result.is_none
    /\ result.loan.loan_amount = Float(50000, 0)
    /\ result.loan.loan_currency = RUB

DateFields == {"deal_date", "termination_date", "actual_termination_date"}

\* the field map has a valid bank_name and nothing but the three dates besides
OnlyDatesVary(fm) ==
    [fm EXCEPT !.deal_date = Absent, !.termination_date = Absent,
               !.actual_termination_date = Absent] = BaseMap

\* the calendar date a raw value denotes as day-month-year, None when it is
\* the N/A marker, the sentinel, not a text or not a date
ExpectedDate(v) ==
    IF v.t = "str" /\ v.s # SentinelDate /\ Upper(v.s) # NotApplicable /\ Strptime(v.s).ok
    THEN Strptime(v.s).v
    ELSE None

\* C11: date normalization is never fatal: with a valid bank_name a loan
\* record is produced for every raw value (text, number, boolean, empty text,
\* null, absent) of deal_date, termination_date and actual_termination_date,
\* and each field is the calendar date when the value parses as
\* day-month-year and absent otherwise (N/A marker and 31-12-9999 included).
C11_DateNeverFatal ==
    (Returned /\ PlainObject /\ OnlyDatesVary(response.fm)) =>
        /\ ~result.is_none
        /\ \A f \in DateFields : result.loan[f] = ExpectedDate(response.fm[f])

\* C12: in every loan record produced, loan_amount is absent or a strictly
\* positive number.
C12_AmountPositive ==
    (Returned /\ ~result.is_none) =>
        \/ ~Present(result.loan.loan_amount)
        \/ result.loan.loan_amount.t = "float" /\ result.loan.loan_amount.n > 0

\* C13: in every loan record produced, loan_currency is absent or a code of
\* exactly three letters.
C13_CurrencyThreeLetters ==
    (Returned /\ ~result.is_none) =>
        \/ ~Present(result.loan.loan_currency)
        \/ /\ result.loan.loan_currency.t = "str"
           /\ Len(result.loan.loan_currency.s) = CurrencyLen
           /\ \A k \in 1..CurrencyLen : result.loan.loan_currency.s[k] \in Letters

(***************************************************************************)
(* Properties of the coordinator and the store.                            *)
(***************************************************************************)
\* number of loan rows that reference paragraph id
LoansOf(id) == Cardinality({k \in 1..Len(loans) : loans[k].paragraph_id = Num(id)})

\* positions in the log of the extraction calls
CallsAt == {k \in 1..Len(log) : log[k].ev = "call"}

\* position in the log of the start of the latest run, 0 before the first
LastStart ==
    IF \E k \in 1..Len(log) : log[k].ev = "start"
    THEN CHOOSE k \in 1..Len(log) :
            log[k].ev = "start" /\ \A m \in (k + 1)..Len(log) : log[m].ev # "start"
    ELSE 0

\* the call at position k of the log has had its outcome recorded
Recorded(k) == k < Len(log)

\* the reply is no well-formed field map: the call threw, or the text is not
\* one JSON object, optionally inside one pair of list brackets
NotAFieldMap(r) == r.raises \/ json_loads(StripBrackets(r.toks)) # "dict"

\* bank_name is absent, null, or empty after trimming
NoBankName(fm) ==
    \/ fm.bank_name.t \in {"absent", "null"}
    \/ fm.bank_name.t = "str" /\ Strip(fm.bank_name.s) = <<>>

\* C2: for every field map whose bank_name is absent, null or empty after
\* trimming, normalization fails, no loan record is stored for the span and
\* the span is marked processed with an error.
C2_MissingBankName ==
    /\ (pc = "record" /\ ~NotAFieldMap(response) /\ NoBankName(response.fm))
          => result.is_none
    /\ \A k \in CallsAt :
          (Recorded(k) /\ ~NotAFieldMap(log[k].response) /\ NoBankName(log[k].response.fm))
              => /\ LoansOf(log[k].id) = 0
                 /\ paragraphs[log[k].id].processed
                 /\ paragraphs[log[k].id].processing_error # NULL

\* C3: in every committed store state, also of a run that is cut off or hit by
\* a storage exception, each span is unprocessed with no record and no error,
\* or processed without error with exactly one record, or processed with an
\* error and no record.
C3_SpanStates ==
    \A k \in 1..Len(paragraphs) :
        LET p == paragraphs[k]
        IN  \/ ~p.processed /\ p.processing_error = NULL /\ LoansOf(p.id) = 0
            \/ p.processed /\ p.processing_error = NULL /\ LoansOf(p.id) = 1
            \/ p.processed /\ p.processing_error # NULL /\ LoansOf(p.id) = 0

\* C3 witness: a run was cut off after it had stored one span and had called
\* the extractor for another, which is still unprocessed
C3_Witness ==
    /\ pc = "idle"
    /\ faults > 0
    /\ \E a \in 1..Len(paragraphs) : paragraphs[a].processed /\ LoansOf(a) = 1
    /\ \E k \in CallsAt : ~paragraphs[log[k].id].processed /\ LoansOf(log[k].id) = 0

C5_FailureLocality ==
    /\ \A a, b \in CallsAt : (LastStart < a /\ a < b) => log[a].id < log[b].id
    /\ (pc = "idle" /\ LastStart # 0) =>
          \A k \in 1..log[LastStart].id :
              (\A c \in CallsAt : c < LastStart => log[c].id # k)
                  => \E c \in CallsAt : c > LastStart /\ log[c].id = k

\* C5 witness: a run has returned in which the call for the first span failed
\* and the next span was then extracted and stored
C5_Witness ==
    /\ pc = "idle"
    /\ \E a, b \in CallsAt :
          /\ LastStart < a /\ a < b
          /\ log[a].response.raises
          /\ paragraphs[log[a].id].processing_error = FailedToExtract
          /\ LoansOf(log[b].id) = 1

\* C6: when the extraction call fails or the reply is no well-formed field
\* map, extract_loan_parameters returns a failure; the coordinator marks the
\* span processed with an error message, stores no record for it, and goes on
\* with the next span.
C6_ExtractionFailure ==
    /\ (pc = "record" /\ NotAFieldMap(response)) => result.is_none
    /\ \A k \in CallsAt :
          (Recorded(k) /\ NotAFieldMap(log[k].response)) =>
              /\ paragraphs[log[k].id].processed
              /\ paragraphs[log[k].id].processing_error # NULL
              /\ LoansOf(log[k].id) = 0
              /\ (k > LastStart /\ \E n \in 1..log[LastStart].id :
                        n > log[k].id /\ \A c \in CallsAt : c < LastStart => log[c].id # n)
                    => \/ pc = "extract" /\ Current > log[k].id
                       \/ \E c \in CallsAt : c > k /\ log[c].id > log[k].id

\* C6 witness: a malformed reply was recorded as an error and the run went on
\* to call the extractor for the next span
C6_Witness ==
    \E k, c \in CallsAt :
        /\ k < c
        /\ ~log[k].response.raises /\ NotAFieldMap(log[k].response)
        /\ paragraphs[log[k].id].processed
        /\ paragraphs[log[k].id].processing_error = FailedToExtract
        /\ LoansOf(log[k].id) = 0
        /\ log[c].id = log[k].id + 1

(***************************************************************************)
(* Properties of the segmenter (checked under SpecSeg).                    *)
(***************************************************************************)
MIN_PARAGRAPH_LENGTH == 50

\* a call of extract_paragraphs_from_pdf has returned
Extracted == seg_pc = "idle" /\ seg_runs >= 1

\* the pages the call goes over
PagesInRange == start_page..LastPage

\* the candidate entries call r formed on page pg, in the order it formed them
SpansOf(r, pg) == SelectSeq(spans, LAMBDA sp : sp.run = r /\ sp.page = pg)

\* C14: for a page text with k header matches the segmenter forms exactly k
\* candidate entries (before the length filter); candidate n runs from the
\* start of match n to the start of match n+1 (the end of the text for the
\* last), so that candidates do not overlap and each ends where the next
\* starts; a page without a match gives no candidate.
C14_SpanContiguity ==
    Extracted =>
        \A pg \in PagesInRange :
            LET text == pdf[pg]
                bs == finditer(text, 1)
                cs == SpansOf(seg_runs, pg)
            IN  /\ Len(cs) = Len(bs)
                /\ \A n \in 1..Len(cs) :
                      /\ cs[n].start = bs[n].start
                      /\ cs[n].start < cs[n].end
                      /\ n < Len(cs) => cs[n].end = bs[n + 1].start /\ cs[n].end = cs[n + 1].start
                      /\ n = Len(cs) => cs[n].end = Len(text)

\* C14 witness: a page with at least two header matches has been cut into as
\* many candidates, the first ending where the second starts
C14_Witness ==
    /\ Extracted
    /\ \E pg \in PagesInRange :
          /\ Len(finditer(pdf[pg], 1)) >= 2
          /\ Len(SpansOf(seg_runs, pg)) = Len(finditer(pdf[pg], 1))
          /\ SpansOf(seg_runs, pg)[1].end = SpansOf(seg_runs, pg)[2].start

RECURSIVE JoinSlices(_, _)
\* the offset ranges of the candidates cs, cut out of text and concatenated
JoinSlices(text, cs) ==
    IF cs = <<>> THEN <<>>
    ELSE Slice(text, Head(cs).start, Head(cs).end) \o JoinSlices(text, Tail(cs))

\* C15: the offset ranges of the candidates of a page, concatenated in order,
\* give the page text back: every character, the text before the first
\* header included, lies in some candidate.
C15_RoundTrip ==
    Extracted =>
        \A pg \in PagesInRange : JoinSlices(pdf[pg], SpansOf(seg_runs, pg)) = pdf[pg]

\* C16: a candidate is discarded if and only if its trimmed, whitespace-
\* collapsed length is below MIN_PARAGRAPH_LENGTH; at the threshold or above
\* it is stored.
C16_MinLengthFilter ==
    \A n \in 1..Len(spans) :
        (spans[n].id = 0) <=> (Len(spans[n].content) < MIN_PARAGRAPH_LENGTH)

\* the rows call r stored, as (page number, text), in the order of storing
StoredBy(r) ==
    LET sp == SelectSeq(spans, LAMBDA x : x.run = r /\ x.id # 0)
    IN  [n \in 1..Len(sp) |->
            [page |-> paragraphs[sp[n].id].page_number,
             content |-> paragraphs[sp[n].id].content]]

\* the candidates call r formed, without the row ids
CandidatesOf(r) ==
    LET sp == SelectSeq(spans, LAMBDA x : x.run = r)
    IN  [n \in 1..Len(sp) |->
            [page |-> sp[n].page, start |-> sp[n].start, end |-> sp[n].end,
             content |-> sp[n].content, stored |-> sp[n].id # 0]]

\* C17: two calls of the segmenter over the same page range and page text
\* give the same sequence of spans: same count, order, page numbers and text.
C17_Idempotent ==
    Extracted =>
        \A r \in 1..seg_runs :
            /\ StoredBy(r) = StoredBy(1)
            /\ CandidatesOf(r) = CandidatesOf(1)

\* C17 witness: the second call has returned and has stored the same two or
\* more spans as the first
C17_Witness ==
    /\ Extracted
    /\ seg_runs = 2
    /\ Len(StoredBy(1)) >= 2
    /\ StoredBy(2) = StoredBy(1)
    /\ Len(paragraphs) = 2 * Len(StoredBy(1))

(***************************************************************************)
(* Rate limiting (checked under SpecCrash).                                *)
(***************************************************************************)
\* the calls at positions a < b of the log are consecutive calls of one run
ConsecutiveCalls(a, b) ==
    /\ a \in CallsAt /\ b \in CallsAt /\ a < b
    /\ \A k \in (a + 1)..(b - 1) : log[k].ev \notin {"call", "start"}

\* C19: within one run the pause of `delay` seconds lies between every two
\* consecutive calls of the extractor, whatever became of the earlier span
\* (stored, extraction failure, normalization failure, storage exception).
C19_RateLimit ==
    \A a, b \in 1..Len(log) :
        ConsecutiveCalls(a, b) => \E k \in (a + 1)..(b - 1) : log[k].ev = "sleep"

(***************************************************************************)
(* Properties of one invocation of main (checked under SpecMain).          *)
(***************************************************************************)
\* the candidate that was stored as row id
SpanOfRow(id) == CHOOSE n \in 1..Len(spans) : spans[n].id = id

\* C18: the spans of one extraction are stored in document order: of two
\* stored spans the one with the smaller id has the smaller (page number,
\* start offset); each carries the 1-based number of the page it was found
\* on; pages without text give no span and change nothing for the others;
\* the coordinator then calls the extractor for them in that id order.
C18_DocumentOrder ==
    /\ \A a, b \in 1..Len(paragraphs) :
          a < b =>
             \/ paragraphs[a].page_number < paragraphs[b].page_number
             \/ /\ paragraphs[a].page_number = paragraphs[b].page_number
                /\ spans[SpanOfRow(a)].start < spans[SpanOfRow(b)].start
    /\ \A a \in 1..Len(paragraphs) :
          LET sp == spans[SpanOfRow(a)]
          IN  /\ paragraphs[a].id = a
              /\ paragraphs[a].page_number \in 1..Len(pdf)
              /\ Strip(pdf[paragraphs[a].page_number]) # <<>>
              /\ paragraphs[a].content =
                    FullContent(pdf[paragraphs[a].page_number], sp.start, sp.end)
    /\ \A a, b \in CallsAt : a < b => log[a].id < log[b].id
    /\ main_pc = "step3" => \A a \in 1..Len(paragraphs) : \E c \in CallsAt : log[c].id = a

\* C18 witness: main has returned after a blank first page was skipped, the
\* entry of page 2 was stored with page number 2, and it was processed
C18_Witness ==
    /\ main_pc = "returned"
    /\ stats.reported
    /\ Len(pdf) >= 2
    /\ start_page = 1
    /\ Strip(pdf[1]) = <<>>
    /\ Len(paragraphs) >= 1
    /\ paragraphs[1].page_number = 2
    /\ paragraphs[1].processed

\* C20: every invocation of main that is not ended by a fatal error (exit
\* status 1) reports the statistics (total spans, loans, errors) before it
\* returns, also when the segmenter stored no span.
C20_SummaryReported ==
    main_pc = "returned" => stats.reported

(***************************************************************************)
(* The command-line run, the credential.                                   *)
(***************************************************************************)

\* C21: when MISTRAL_API_KEY is not set the run ends with an error before
\* anything is segmented, stored, sent to the extractor or marked processed:
\* main is at its start or has exited with status 1, no extraction and no
\* coordinator run has begun, no call has been made, and the store is as it
\* was (empty).
C21_NoKeyNoWork ==
    ~api_key =>
        /\ main_pc \in {"start", "exit1"}
        /\ seg_runs = 0 /\ seg_pc = "idle" /\ spans = <<>>
        /\ runs = 0 /\ pc = "idle" /\ log = <<>>
        /\ paragraphs = <<>> /\ loans = <<>> /\ tx = NoTx

\* the run without a key has exited with status 1
C21_Witness ==
    /\ ~api_key
    /\ main_pc = "exit1"
    /\ paragraphs = <<>> /\ loans = <<>> /\ log = <<>>

(***************************************************************************)
(* The segmenter and the normaliser end to end.                            *)
(***************************************************************************)
\* the places of a page text where the header pattern matches when it is
\* tried there on its own
Markers(text) == {p \in 1..Len(text) : HeaderEnd(text, p) # 0}

\* the field map of the stub extractor: a bank name, a deal date and the
\* sentinel termination date
StubMap ==
    [BaseMap EXCEPT !.deal_date = Date18052024, !.termination_date = Str(SentinelDate)]

\* C22: a page text holding two header markers one after the other is cut
\* into exactly two candidate spans, in the order of the markers, each
\* starting at its marker; and a stub extractor that answers each of them
\* with a bank name, deal_date 18-05-2024 and termination_date 31-12-9999
\* yields a loan record with loan_status Active and no termination_date.
C22_EndToEnd ==
    Extracted =>
        \A pg \in PagesInRange :
            LET text == pdf[pg]
                cs == SpansOf(seg_runs, pg)
            IN  Cardinality(Markers(text)) = 2 =>
                    /\ Len(cs) = 2
                    /\ {cs[n].start + 1 : n \in 1..Len(cs)} = Markers(text)
                    /\ cs[1].start < cs[2].start
                    /\ \A n \in 1..Len(cs) :
                          LET r == extract_loan_parameters(Object(StubMap), n)
                          IN  /\ ~r.is_none
                              /\ r.loan.loan_status = Active
                              /\ ~Present(r.loan.termination_date)

(***************************************************************************)
(* The stored loan record.                                                 *)
(***************************************************************************)
\* what a SELECT of field k gives for a row of loans: the value of the
\* column, nothing when the table has no such column
ReadBack(row, k) == IF k \in DOMAIN row THEN row[k] ELSE None

\* the stored value is the value of the record; a date is stored as its
\* ISO text
SameValue(stored, v) ==
    \/ stored = v
    \/ v.t = "date" /\ stored = isoformat(v)

\* C23: the row stored for a loan record holds every field of the record
\* (bank_name, deal_date, deal_type, loan_type, card_usage, loan_amount,
\* loan_currency, termination_date, actual_termination_date, loan_status) and
\* the reference to the span: reading the row back gives the value the
\* normalized record had, for every field.
C23_RecordComplete ==
    pc = "inserted" =>
        LET row == tx.loans[Len(tx.loans)]
        IN  \A k \in LoanFields : SameValue(ReadBack(row, k), result.loan[k])

(***************************************************************************)
(* The sentinel observation.                                               *)
(***************************************************************************)
\* the working map of the normaliser after the loop over the date fields
\* (lines 352-363), for the field map fm of span paragraph_id
ConvertedMap(fm, paragraph_id) ==
    ConvertDates(SplitAmount([fm EXCEPT !.paragraph_id = Num(paragraph_id)]).d)

\* C24: the sentinel rule applies exactly when the raw termination_date was
\* the sentinel text.  The observation is made exactly then: a sentinel in
\* deal_date or actual_termination_date, or the N/A marker, does not set it.
\* It survives the construction of the loan record, so that it is there when
\* the status is derived.  It is never part of the stored record.
C24_SentinelObservation ==
    (Returned /\ PlainObject /\ ~result.is_none) =>
        LET loan_data == ConvertedMap(response.fm, Current)
            loan == Loan(loan_data).loan
            sentinel == response.fm.termination_date = Str(SentinelDate)
        IN  /\ HasKey(loan_data, "original_termination") <=> sentinel
            /\ HasAttr(loan, "original_termination") <=> sentinel
            /\ "original_termination" \notin DOMAIN LoanRow(result.loan)

(***************************************************************************)
(* The shape of the reply.                                                 *)
(***************************************************************************)
\* the text is one JSON object and whitespace
ObjectText(toks) == SelectSeq(toks, LAMBDA c : c # "ws") = <<"{}">>

\* the reply is a single JSON object, or one between a leading "[" and a
\* trailing "]"
WellFormedReply(r) ==
    /\ ~r.raises
    /\ \/ ObjectText(r.toks)
       \/ /\ Len(r.toks) >= 2
          /\ r.toks[1] = "[" /\ r.toks[Len(r.toks)] = "]"
          /\ ObjectText(SubSeq(r.toks, 2, Len(r.toks) - 1))

C26_StatisticsConsistent ==
    LET s == get_statistics(paragraphs, loans)
    IN  /\ s.total_loans = s.processed_paragraphs - s.error_paragraphs
        /\ s.error_paragraphs <= s.processed_paragraphs
        /\ s.processed_paragraphs <= s.total_paragraphs
        /\ 0 <= s.success_rate[1] /\ s.success_rate[1] <= s.success_rate[2]

\* C26 witness: after a run one span has a loan record and one has an error,
\* the success rate is 1/2
C26_Witness ==
    /\ pc = "idle" /\ runs >= 1
    /\ get_statistics(paragraphs, loans).total_loans = 1
    /\ get_statistics(paragraphs, loans).error_paragraphs = 1
    /\ get_statistics(paragraphs, loans).success_rate = <<1, 2>>

(***************************************************************************)
(* Termination of the coordinator (checked under SpecFair).                *)
(***************************************************************************)
\* C27: for any finite set of unprocessed spans and any batch_size >= 1,
\* when the storage updates succeed, process_paragraphs terminates, and when
\* it returns every span that was unprocessed at its start is marked
\* processed: the set of unprocessed spans is empty.
C27_Termination ==
    /\ (pc # "idle") ~> (pc = "idle" /\ get_unprocessed_paragraphs(paragraphs) = <<>>)
    /\ [][(pc # "idle" /\ pc' = "idle") => get_unprocessed_paragraphs(paragraphs') = <<>>]_vars

\* C27 witness: a run that found two unprocessed spans has returned and both
\* are processed, one with a loan record and one with an error
C27_Witness ==
    /\ pc = "idle"
    /\ runs = 1
    /\ log[1] = StartEvent(2)
    /\ Cardinality(CallsAt) = 2
    /\ get_unprocessed_paragraphs(paragraphs) = <<>>
    /\ LoansOf(1) + LoansOf(2) = 1

(***************************************************************************)
(* Monotonicity of the processed state (checked under SpecCrash).          *)
(***************************************************************************)
\* C28: the processed state is monotone.  No step turns a processed span
\* back to unprocessed, clears or changes its error, or deletes or modifies
\* an existing loan record: once a span is processed its row and its loan
\* records stay the same through every later step and run; rows are only
\* added.
C28_Monotone ==
    [][/\ Len(paragraphs') >= Len(paragraphs)
       /\ \A k \in 1..Len(paragraphs) :
             /\ paragraphs'[k].id = paragraphs[k].id
             /\ paragraphs[k].processed =>
                   /\ paragraphs'[k] = paragraphs[k]
                   /\ LoansOf(k)' = LoansOf(k)
       /\ Len(loans') >= Len(loans)
       /\ SubSeq(loans', 1, Len(loans)) = loans]_vars

\* C28 witness: the first run left span 1 processed with an error; a second
\* run, over a span stored later, has recorded a loan for span 2, and span 1
\* is as it was
C28_Witness ==
    /\ pc = "idle"
    /\ runs = 2
    /\ Len(paragraphs) = 2
    /\ paragraphs[1].processed /\ paragraphs[1].processing_error = FailedToExtract
    /\ paragraphs[2].processed /\ LoansOf(2) = 1
    /\ \E c \in CallsAt : log[c].id = 1 /\ c < LastStart
    /\ \E c \in CallsAt : log[c].id = 2 /\ c > LastStart

(***************************************************************************)
(* The batch size.                                                         *)
(***************************************************************************)
\* range(0, n, size)
BatchStarts(n, size) == {b \in 0..(n - 1) : b % size = 0}

\* the span ids of the extractor calls of the latest run, in call order
RunCalls ==
    LET at == SelectSeq([k \in 1..Len(log) |-> k],
                        LAMBDA k : k > LastStart /\ log[k].ev = "call")
    IN  [n \in 1..Len(at) |-> log[at[n]].id]

\* C29: the batch size does not change the outcome.  For every batch size
\* >= 1 each selected span falls in exactly one batch; whatever the batch
\* size of the run, its extractor calls are made for the selected spans in
\* span-id order, one call per span; and what is stored for a span depends
\* on the response to its call alone.  Two runs over the same store and the
\* same responses that differ in batch size therefore make the same calls in
\* the same order and leave the same store.
C29_BatchSizeIrrelevant ==
    /\ pc # "idle" =>
          /\ \A size \in 1..MaxBatch : \A k \in 1..Len(unprocessed) :
                Cardinality({bm \in BatchStarts(Len(unprocessed), size) \X (1..Len(unprocessed)) :
                                /\ bm[2] <= Len(Batch(unprocessed, bm[1], size))
                                /\ Batch(unprocessed, bm[1], size)[bm[2]] = unprocessed[k]}) = 1
          /\ Len(RunCalls) <= Len(unprocessed)
          /\ RunCalls = SubSeq(unprocessed, 1, Len(RunCalls))
          /\ Len(RunCalls) = i + j + (IF pc = "extract" THEN 0 ELSE 1)
          /\ \A k \in 1..(Len(unprocessed) - 1) : unprocessed[k] < unprocessed[k + 1]
    /\ \A c \in CallsAt :
          Recorded(c) =>
              LET id == log[c].id
                  r == extract_loan_parameters(log[c].response, id)
              IN  /\ paragraphs[id].processed
                  /\ r.is_none => /\ paragraphs[id].processing_error = FailedToExtract
                                  /\ LoansOf(id) = 0
                  /\ ~r.is_none => /\ paragraphs[id].processing_error = NULL
                                   /\ LoansOf(id) = 1
                                   /\ \E k \in 1..Len(loans) : loans[k] = LoanRow(r.loan)

\* C29 witness: a run with batch_size 1 over two spans has recorded the
\* first and is at the start of its second batch
C29_Witness ==
    /\ pc = "extract"
    /\ batch_size = 1
    /\ Len(unprocessed) = 2
    /\ i = 1 /\ j = 0
    /\ RunCalls = <<unprocessed[1]>>
    /\ paragraphs[unprocessed[1]].processed

(***************************************************************************)
(* Extraction is append-only (checked under SpecLib).                      *)
(***************************************************************************)
\* the header matches of a page text whose entry is long enough to be stored
Qualifying(text) ==
    LET hs == finditer(text, 1)
    IN  SelectSeq([n \in 1..Len(hs) |-> n],
                  LAMBDA n : Len(FullContent(text, hs[n].start, EndPos(hs, n - 1, text)))
                                > MinContentLength)

RECURSIVE QualifyingUpTo(_)
\* the number of qualifying candidates on the pages of the range up to pg
QualifyingUpTo(pg) ==
    IF pg < start_page THEN 0
    ELSE Len(Qualifying(pdf[pg])) + QualifyingUpTo(pg - 1)

\* C30: extraction is append-only and does not deduplicate.  Each call of
\* extract_paragraphs_from_pdf adds one new unprocessed row per qualifying
\* candidate and returns the number of rows it added; it leaves the rows
\* that exist and the loan records as they are.  n calls over the same pages
\* leave n copies of each span, and a later coordinator run calls the
\* extractor for each copy and records each copy on its own.
C30_AppendOnly ==
    /\ [](/\ (Extracted /\ pc = "idle") =>
               /\ extracted_count = QualifyingUpTo(LastPage)
               /\ Len(paragraphs) = seg_runs * extracted_count
               /\ \A k \in 1..Len(paragraphs) :
                     /\ paragraphs[k].id = k
                     /\ k > extracted_count =>
                           /\ paragraphs[k].content = paragraphs[k - extracted_count].content
                           /\ paragraphs[k].page_number
                                 = paragraphs[k - extracted_count].page_number
          /\ \A a, b \in CallsAt : log[a].id = log[b].id => a = b
          /\ (pc = "idle" /\ LastStart # 0) =>
                \A k \in 1..log[LastStart].id :
                    /\ paragraphs[k].processed
                    /\ \E c \in CallsAt :
                          /\ log[c].id = k
                          /\ LoansOf(k) = IF extract_loan_parameters(log[c].response, k).is_none
                                          THEN 0 ELSE 1)
    /\ [][(seg_pc # "idle" \/ seg_pc' # "idle") =>
             /\ loans' = loans
             /\ Len(paragraphs') >= Len(paragraphs)
             /\ SubSeq(paragraphs', 1, Len(paragraphs)) = paragraphs
             /\ \A k \in (Len(paragraphs) + 1)..Len(paragraphs') :
                   ~paragraphs'[k].processed /\ paragraphs'[k].processing_error = NULL]_vars

\* C30 witness: two calls over the same page have left two rows with the
\* same text, the second added after the first had been processed, and the
\* coordinator has called the extractor for each and stored a loan for each
C30_Witness ==
    /\ Extracted /\ seg_runs = 2
    /\ pc = "idle"
    /\ Len(paragraphs) = 2
    /\ paragraphs[1].content = paragraphs[2].content
    /\ paragraphs[1].processed /\ paragraphs[2].processed
    /\ Cardinality(CallsAt) = 2
    /\ LoansOf(1) = 1 /\ LoansOf(2) = 1
    /\ log[1] = StartEvent(1)

====
